---- MODULE Spec2Model ----
(***************************************************************************)
(* ReactAgent (src/src/agent_core.py): the streaming classifier that turns *)
(* the engine's raw stream events of one turn into presentation events.    *)
(*                                                                         *)
(* Representation.  A Python str is a sequence of one-character strings    *)
(* ("ab" is <<"a", "b">>), so that truthiness, strip(), the ':' test and   *)
(* split(':', 1) are computed character by character.  Type tags and       *)
(* program counters are TLA+ strings.  A Python value that may be None, a  *)
(* str or a dict is a tagged record (PyNone, PyStr, PyDict); a dict is a   *)
(* set of <<key, value>> pairs.                                            *)
(***************************************************************************)
EXTENDS Naturals, Sequences, FiniteSets, TLC

\* Longest raw event stream of one turn that is explored.
MaxEvents == 4

-----------------------------------------------------------------------------
\* Python values

PyNone == [t |-> "None", s |-> <<>>, d |-> {}]
PyStr(s) == [t |-> "str", s |-> s, d |-> {}]
PyDict(d) == [t |-> "dict", s |-> <<>>, d |-> d]

\* bool(v): None, "" and {} are falsy.
Truthy(v) ==
    IF v.t = "None" THEN FALSE
    ELSE IF v.t = "str" THEN v.s # <<>>
    ELSE v.d # {}

\* str.strip() leaves something: some character is not whitespace.
\* Whitespace holds the ASCII characters str.isspace() accepts: space, \n,
\* \t, \r, \f, the vertical tab U+000B and the separators U+001C..U+001F
\* (the last five written as the characters themselves).  The spaces
\* outside ASCII (U+0085, U+00A0, U+2000..) are not in the alphabet of the
\* module.
Whitespace ==
    {" ", "\n", "\t", "\r", "\f", "", "", "", "", ""}
StripNonEmpty(s) == \E i \in 1..Len(s) : s[i] \notin Whitespace

\* Position of the first c in s, 0 when c does not occur.
RECURSIVE FindFrom(_, _, _)
FindFrom(s, c, i) ==
    IF i > Len(s) THEN 0
    ELSE IF s[i] = c THEN i
    ELSE FindFrom(s, c, i + 1)
Find(s, c) == FindFrom(s, c, 1)

COLON == ":"
\* Position of the last c in s, 0 when c does not occur.
RECURSIVE FindLastFrom(_, _, _)
FindLastFrom(s, c, i) ==
    IF i = 0 THEN 0
    ELSE IF s[i] = c THEN i
    ELSE FindLastFrom(s, c, i - 1)

\* Variant: the name is split at its last ':' (rsplit).
SplitOnce_AtLastColon(s) ==
    [head |-> SubSeq(s, 1, FindLastFrom(s, COLON, Len(s)) - 1),
     tail |-> SubSeq(s, FindLastFrom(s, COLON, Len(s)) + 1, Len(s))]

\* tool_name.split(":", 1): the parts before and after the first ':'.
SplitOnce(s) ==
    [head |-> SubSeq(s, 1, Find(s, COLON) - 1),
     tail |-> SubSeq(s, Find(s, COLON) + 1, Len(s))]

\* json.loads on the argument texts the engine is given here: the texts of
\* JsonObjects decode to their mapping, "null" to None, every other text
\* raises.
JsonEmptyObject == <<"{", "}">>
JsonQueryObject == <<"{", "\"", "q", "\"", ":", "\"", "x", "\"", "}">>
JsonNull == <<"n", "u", "l", "l">>
JsonBroken == <<"{", "n", "o", "t">>
JsonLoads(text) ==
    IF text = JsonEmptyObject THEN [ok |-> TRUE, v |-> PyDict({})]
    ELSE IF text = JsonQueryObject
        THEN [ok |-> TRUE, v |-> PyDict({<<<<"q">>, <<"x">>>>})]
    ELSE IF text = JsonNull THEN [ok |-> TRUE, v |-> PyNone]
    ELSE [ok |-> FALSE, v |-> PyNone]

UNKNOWN == <<"u", "n", "k", "n", "o", "w", "n">>
\* The fixed tool_name of every tool_output event (a Chinese literal in the
\* source, "tool call result").
TOOL_OUTPUT_NAME == <<"r", "e", "s", "u", "l", "t">>

-----------------------------------------------------------------------------
\* Raw stream events (agents SDK StreamEvent) and run items

NoRawItem ==
    [present |-> FALSE, name |-> <<>>, tool_name |-> <<>>,
     function_name |-> <<>>, tool_call_id |-> <<>>, arguments |-> PyNone,
     output |-> PyNone, result |-> PyNone, content |-> PyNone]
\* item.function: has_arguments tells whether the object has an attribute
\* `arguments` at all (hasattr), which the argument fallback tests.
NoFunction ==
    [present |-> FALSE, name |-> <<>>, has_arguments |-> FALSE,
     arguments |-> PyNone]

\* A run item with every attribute the handlers probe; an absent attribute
\* (or one that is None) is the empty name or PyNone.
BlankItem(type) ==
    [type |-> type, raw_item |-> NoRawItem, name |-> <<>>, tool_name |-> <<>>,
     function |-> NoFunction, arguments |-> PyNone, args |-> PyNone,
     output |-> PyNone, result |-> PyNone]

TextDeltaEvent(delta) ==
    [type |-> "raw_response_event",
     data |-> [class |-> "ResponseTextDeltaEvent", delta |-> delta]]
RunItemEvent(item) == [type |-> "run_item_stream_event", item |-> item]

-----------------------------------------------------------------------------
\* Tool reference resolution (inlined in run_with_stream_and_events)

\* Variant: function_name is looked at before tool_name.
CallNameFromRaw_FunctionNameFirst(item) ==
    IF ~item.raw_item.present THEN <<>>
    ELSE IF item.raw_item.name # <<>> THEN item.raw_item.name
    ELSE IF item.raw_item.function_name # <<>> THEN item.raw_item.function_name
    ELSE item.raw_item.tool_name

\* Tool name of a tool_call_item from its raw_item: name, else tool_name or
\* function_name.  The empty name stands for None.
CallNameFromRaw(item) ==
    IF ~item.raw_item.present THEN <<>>
    ELSE IF item.raw_item.name # <<>> THEN item.raw_item.name
    ELSE IF item.raw_item.tool_name # <<>> THEN item.raw_item.tool_name
    ELSE item.raw_item.function_name

\* The item's own attributes, probed only when the raw_item gave no name.
\* (The isinstance(item, dict) branch is unreachable: a dict has no attribute
\* "type", so a dict item is never dispatched to the tool handlers.)
NameFromItem(item, tool_name) ==
    IF tool_name # <<>> THEN tool_name
    ELSE IF item.name # <<>> THEN item.name
    ELSE IF item.tool_name # <<>> THEN item.tool_name
    ELSE IF item.function.present THEN item.function.name
    ELSE tool_name

NameOrUnknown(tool_name) == IF tool_name = <<>> THEN UNKNOWN ELSE tool_name

ResolveCallName(item) == NameOrUnknown(NameFromItem(item, CallNameFromRaw(item)))

\* json.loads(text), {} when it raises.
LoadsOrEmpty(text) ==
    IF JsonLoads(text).ok THEN JsonLoads(text).v ELSE PyDict({})

\* tool_args after the raw_item block: starts as {}, replaced when the
\* raw_item carries truthy arguments (decoded when they are a str).
ArgsFromRaw(item) ==
    IF ~item.raw_item.present THEN PyDict({})
    ELSE IF ~Truthy(item.raw_item.arguments) THEN PyDict({})
    ELSE IF item.raw_item.arguments.t = "str"
        THEN LoadsOrEmpty(item.raw_item.arguments.s)
    ELSE item.raw_item.arguments

\* The item's own arguments, args or function.arguments.
ArgsFromItem(item, tool_args) ==
    IF Truthy(item.arguments) THEN item.arguments
    ELSE IF Truthy(item.args) THEN item.args
    ELSE IF item.function.present /\ item.function.has_arguments
        THEN item.function.arguments
    ELSE tool_args

DecodeIfStr(tool_args) ==
    IF tool_args.t = "str" THEN LoadsOrEmpty(tool_args.s) ELSE tool_args

ResolveCallArgs(item) ==
    IF Truthy(ArgsFromRaw(item)) THEN ArgsFromRaw(item)
    ELSE DecodeIfStr(ArgsFromItem(item, ArgsFromRaw(item)))

\* getattr(mcp_server, 'name', None) or str(mcp_server): the server's name,
\* and the text of str(server) when the name is missing or empty.
ServerLabel(server) == IF server.name # <<>> THEN server.name ELSE server.str

\* mcp_server.list_tools() as the scan calls it, without await.  The
\* connected servers are agents.mcp MCPServer objects (the type of
\* self.mcp_servers; MCPManager builds MCPServerStdio, MCPServerSse and
\* MCPServerStreamableHttp), whose list_tools is a coroutine function
\* (`async def`): the call returns a coroutine object and not the tools the
\* server declares, which only awaiting it would give.
ListTools(server) == [t |-> "coroutine", of |-> server.tools]

\* any(t.get('name') == tool_name for t in tools): iterating a coroutine
\* object raises TypeError; a list of dicts is searched for the name.
AnyToolNamed(tools, tool_name) ==
    IF tools.t = "coroutine" THEN [raises |-> TRUE, found |-> FALSE]
    ELSE [raises |-> FALSE,
          found |-> \E k \in 1..Len(tools.items) : tools.items[k] = tool_name]

\* The scan of self.mcp_servers for a bare tool name: the label of the first
\* server for which the test finds the name (break); a server for which the
\* test raises is passed over by the bare except.  <<>> is None.
RECURSIVE ScanServers(_, _, _)
ScanServers(servers, tool_name, i) ==
    IF i > Len(servers) THEN <<>>
    ELSE IF ~AnyToolNamed(ListTools(servers[i]), tool_name).raises
            /\ AnyToolNamed(ListTools(servers[i]), tool_name).found
        THEN ServerLabel(servers[i])
    ELSE ScanServers(servers, tool_name, i + 1)

\* (server_name, tool_name): split at the first ':' when there is one,
\* otherwise the scan of the connected servers.
ResolveProvider(servers, tool_name) ==
    IF Find(tool_name, COLON) # 0
        THEN [server_name |-> SplitOnce(tool_name).head,
              tool_name |-> SplitOnce(tool_name).tail]
    ELSE [server_name |-> ScanServers(servers, tool_name, 1),
          tool_name |-> tool_name]

\* f"{server_name}:{tool_name}" if server_name else tool_name
FormatToolName(r) ==
    IF r.server_name # <<>> THEN r.server_name \o <<COLON>> \o r.tool_name
    ELSE r.tool_name

\* Tool name of a tool_call_output_item, as the handler works it out before
\* the yield: raw_item.name, else tool_name, function_name or tool_call_id,
\* else the item's own name, tool_name or function.name, else 'unknown'.
OutputNameFromRaw(item) ==
    IF ~item.raw_item.present THEN <<>>
    ELSE IF item.raw_item.name # <<>> THEN item.raw_item.name
    ELSE IF item.raw_item.tool_name # <<>> THEN item.raw_item.tool_name
    ELSE IF item.raw_item.function_name # <<>> THEN item.raw_item.function_name
    ELSE item.raw_item.tool_call_id

ResolveOutputName(item) ==
    NameOrUnknown(NameFromItem(item, OutputNameFromRaw(item)))

\* Output of a tool_call_output_item: the first of raw_item.output, result,
\* content that is not None; when that is falsy, the item's own output or
\* result when not None.
OutputFromRaw(item) ==
    IF ~item.raw_item.present THEN PyNone
    ELSE IF item.raw_item.output # PyNone THEN item.raw_item.output
    ELSE IF item.raw_item.result # PyNone THEN item.raw_item.result
    ELSE item.raw_item.content

OutputFromItem(item, tool_output) ==
    IF Truthy(tool_output) THEN tool_output
    ELSE IF item.output # PyNone THEN item.output
    ELSE IF item.result # PyNone THEN item.result
    ELSE tool_output

ResolveOutput(item) == OutputFromItem(item, OutputFromRaw(item))

\* Presentation events
ThinkEvent(content) == [type |-> "think", content |-> content]
TextDeltaOut(content) == [type |-> "text_delta", content |-> content]
ToolCallEvent(servers, item) ==
    [type |-> "tool_call",
     tool_name |-> FormatToolName(ResolveProvider(servers, ResolveCallName(item))),
     arguments |-> ResolveCallArgs(item)]
\* Variant: the event is named after the tool and provider worked out from
\* the output item (no server list is consulted for a bare name).
ToolOutputEvent_ResolvedName(item) ==
    [type |-> "tool_output",
     tool_name |-> FormatToolName(ResolveProvider(<<>>, ResolveOutputName(item))),
     output |-> ResolveOutput(item)]

\* The tool_output event: server_name and tool_name are worked out and not
\* used, the event carries the fixed name.
ToolOutputEvent(item) ==
    [type |-> "tool_output", tool_name |-> TOOL_OUTPUT_NAME,
     output |-> ResolveOutput(item)]
CompleteEvent == [type |-> "complete"]

-----------------------------------------------------------------------------
\* Inputs: the raw events a turn's stream is drawn from

LOOKUP == <<"l", "o", "o", "k", "u", "p">>
READ == <<"r", "e", "a", "d">>
FILES == <<"f", "i", "l", "e", "s">>

Deltas == {<<>>, <<" ">>, <<"a">>, <<"b">>}

\* A call named by its raw_item with JSON-encoded arguments, and a call
\* named only by the item itself with undecodable arguments.
CallLookup ==
    [BlankItem("tool_call_item") EXCEPT
        !.raw_item = [NoRawItem EXCEPT !.present = TRUE, !.name = LOOKUP,
                                       !.arguments = PyStr(JsonQueryObject)]]
CallRead ==
    [BlankItem("tool_call_item") EXCEPT
        !.name = READ, !.arguments = PyStr(JsonBroken)]
ToolCallItems == {CallLookup, CallRead}

OutputOnItem ==
    [BlankItem("tool_call_output_item") EXCEPT !.output = PyStr(<<"4", "2">>)]
OutputOnRaw ==
    [BlankItem("tool_call_output_item") EXCEPT
        !.raw_item = [NoRawItem EXCEPT !.present = TRUE,
                                       !.output = PyStr(<<"o", "k">>)]]
ToolOutputItems == {OutputOnItem, OutputOnRaw}

\* run items that are neither a tool call nor a tool output
OtherItems == {BlankItem("message_output_item")}

\* events of another type, and raw response events that carry no text delta
OtherEvents ==
    {[type |-> "agent_updated_stream_event"],
     [type |-> "raw_response_event",
      data |-> [class |-> "ResponseCreatedEvent", delta |-> <<>>]]}

RawEvents ==
    {TextDeltaEvent(d) : d \in Deltas}
        \cup {RunItemEvent(i) : i \in ToolCallItems \cup ToolOutputItems \cup OtherItems}
        \cup OtherEvents

\* The connected MCP servers the agent is constructed with: the servers
\* that MCPManager.load_mcp_servers created and connected, each with the name
\* of its configuration, the text of str(server) and the tools it declares
\* (what `await server.list_tools()` would return).
SERVER_STR == <<"<", "S", "e", "r", "v", "e", "r", ">">>
McpServer(name, tools) == [name |-> name, str |-> SERVER_STR, tools |-> tools]
FilesServer == McpServer(FILES, <<READ>>)
McpServerLists == {<<FilesServer>>}

Methods == {"run_with_stream", "run_with_stream_and_events"}

-----------------------------------------------------------------------------
\* State of one turn

VARIABLES
    method,                   \* the generator that runs this turn
    mcp_servers,              \* self.mcp_servers
    pc,                       \* where the generator is: "streaming" (waiting
                              \* for the next raw event), "yield_think",
                              \* "yield_text_delta", "yield_flush" (suspended
                              \* at that yield), "done" (complete yielded:
                              \* nothing is left to run), "raised"
    pulled,                   \* history: the raw events pulled so far, in order
    chunks,                   \* run_with_stream: the str chunks yielded
    out,                      \* run_with_stream_and_events: the event dicts yielded
    outCause,                 \* history: per event of out, how many raw events had
                              \* been pulled when it was yielded (its cause)
    outFrags,                 \* history: per event of out, the pull indices of the
                              \* text deltas whose content it carries
    bufFrags,                 \* history: pull indices of the deltas accumulated
                              \* in current_text_buffer
    current_text_buffer,
    last_event_was_tool_call,
    has_sent_think,
    is_after_tool_output,
    is_thinking_phase,
    has_called_tool,
    think_was_sent,
    front_end,                \* what consumes the turn's events: "none" (the
                              \* caller of the generator), "cli", "web"
    handler,                  \* CLI.run / handle_connection: "idle" (waiting for
                              \* input), "turn" (in the async for), "closed"
    turns,                    \* history: turns started by this front end
    failed_turns,             \* history: turns that ended in the except clause
    consumed,                 \* how many events of out the front end has taken
    has_tool_call,            \* _handle_user_message locals
    has_tool_output,
    think_was_converted,
    wire,                     \* the _send_message calls of the turn; the last
                              \* one is pending while websocket.send is awaited
    thinking_started,         \* hasattr(self, '_thinking_started')
    printed,                  \* history: what CLI.run printed in the turn
    pair,                     \* two turns running concurrently
    earlier,                  \* history: the calls of run_with_stream_and_events
                              \* made on this agent before the present one,
                              \* each as it was left: what it had pulled and
                              \* yielded and where it stood
    sm_call,                  \* the SessionManager call made, with the outcome
                              \* of every library call it can reach
    sm_result,                \* what that call returned or raised
    config_servers,           \* load_mcp_servers: config.servers, each with the
                              \* outcome of creating and connecting it
    load_index,               \* how many of them the for loop has passed
    loaded_servers,           \* the local list `servers`
    loader_pc,                \* "loading", "returned"
    session_agents,           \* WebSocketHandler.session_agents
    connection_sessions,      \* WebSocketHandler.connection_sessions
    conns,                    \* each connection: where its handle_connection is
    agents_made,              \* history: the agents the factory has returned
    requests,                 \* history: the client messages read so far
    agent_history,            \* history: per session id, the agents handed out
    ids_generated             \* how many session ids uuid4 has been asked for

flags ==
    <<last_event_was_tool_call, has_sent_think, is_after_tool_output,
      is_thinking_phase, has_called_tool, think_was_sent>>
history == <<outCause, outFrags, bufFrags>>
adapter == <<has_tool_call, has_tool_output, think_was_converted>>
front ==
    <<front_end, handler, turns, failed_turns, consumed, adapter, wire,
      thinking_started, printed>>
manager == <<sm_call, sm_result>>
loader == <<config_servers, load_index, loaded_servers, loader_pc>>
web_server ==
    <<session_agents, connection_sessions, conns, agents_made, requests,
      agent_history, ids_generated>>
services == <<manager, loader, web_server>>
vars ==
    <<method, mcp_servers, pc, pulled, chunks, out, history,
      current_text_buffer, flags, front, pair, earlier, services>>

\* The generator is driven by its caller directly: no front end, no second turn.
NoFrontEnd ==
    /\ front_end = "none"
    /\ handler = "closed"
    /\ turns = 0
    /\ failed_turns = 0
    /\ consumed = 0
    /\ has_tool_call = FALSE
    /\ has_tool_output = FALSE
    /\ think_was_converted = FALSE
    /\ wire = <<>>
    /\ thinking_started = FALSE
    /\ printed = <<>>
NoPair == pair = <<>> /\ earlier = <<>>

\* No WebSocketHandler with connections takes part.
NoServer ==
    /\ session_agents = {}
    /\ connection_sessions = {}
    /\ conns = <<>>
    /\ agents_made = 0
    /\ requests = 0
    /\ agent_history = <<>>
    /\ ids_generated = 0

\* No SessionManager call and no MCP server loading take part.
NoServices ==
    /\ NoServer
    /\ sm_call = <<>>
    /\ sm_result = <<>>
    /\ config_servers = <<>>
    /\ load_index = 0
    /\ loaded_servers = <<>>
    /\ loader_pc = "returned"

Init ==
    /\ method \in Methods
    /\ mcp_servers \in McpServerLists
    /\ pc = "streaming"
    /\ pulled = <<>>
    /\ chunks = <<>>
    /\ out = <<>>
    /\ outCause = <<>>
    /\ outFrags = <<>>
    /\ bufFrags = <<>>
    /\ current_text_buffer = <<>>
    /\ last_event_was_tool_call = FALSE
    /\ has_sent_think = FALSE
    /\ is_after_tool_output = FALSE
    /\ is_thinking_phase = FALSE
    /\ has_called_tool = FALSE
    /\ think_was_sent = FALSE
    /\ NoFrontEnd
    /\ NoPair
    /\ NoServices

\* Which branch of the stream loop an event takes.
IsTextDelta(e) ==
    e.type = "raw_response_event" /\ e.data.class = "ResponseTextDeltaEvent"
IsRunItem(e) == ~IsTextDelta(e) /\ e.type = "run_item_stream_event"

\* The next event of result.stream_events() is pulled.
Pull(e) ==
    /\ pc = "streaming"
    /\ Len(pulled) < MaxEvents
    /\ pulled' = Append(pulled, e)

\* Events yielded while handling the event just pulled.
Yield(events, frags) ==
    /\ out' = out \o events
    /\ outCause' = outCause \o [i \in 1..Len(events) |-> Len(pulled) + 1]
    /\ outFrags' = outFrags \o frags

-----------------------------------------------------------------------------
\* run_with_stream_and_events

Events == method = "run_with_stream_and_events"

\* Variant: the truthiness test of the delta is missing.
DeltaIsTruthy_Always(delta) == TRUE

\* `if event.data.delta:`
DeltaIsTruthy(delta) == delta # <<>>

\* Variant: a text delta pulled after a tool call is streamed as the answer
\* without waiting for the tool output.
TextRoute_AnswerAfterCall(after_tool_output, sent_think) ==
    IF after_tool_output \/ sent_think THEN "text_delta" ELSE "think"

\* Variant: text before the first tool call is streamed as the answer.
TextRoute_AnswerFirst(after_tool_output, sent_think) ==
    IF after_tool_output \/ ~sent_think THEN "text_delta" ELSE "buffer"

\* Variant: has_sent_think is not looked at, so text pulled after a tool call
\* and before its output is streamed as thinking.
TextRoute_ThinkUntilOutput(after_tool_output, sent_think) ==
    IF after_tool_output THEN "text_delta" ELSE "think"

\* Where a non-empty text delta goes: streamed as the answer after a tool
\* output, streamed as thinking before the first tool call, otherwise only
\* accumulated in the buffer.
TextRoute(after_tool_output, sent_think) ==
    IF after_tool_output THEN "text_delta"
    ELSE IF ~sent_think THEN "think"
    ELSE "buffer"

\* Variant: the think event carries the accumulated buffer, not the delta.
TextDelta_ThinkCarriesBuffer(e) ==
    /\ Events
    /\ IsTextDelta(e)
    /\ Pull(e)
    /\ IF DeltaIsTruthy(e.data.delta)
        THEN /\ current_text_buffer' = current_text_buffer \o e.data.delta
             /\ bufFrags' = Append(bufFrags, Len(pulled) + 1)
             /\ IF TextRoute(is_after_tool_output, has_sent_think) = "text_delta"
                   THEN /\ Yield(<<TextDeltaOut(e.data.delta)>>, <<(<<Len(pulled) + 1>>)>>)
                        /\ pc' = "yield_text_delta"
                        /\ UNCHANGED last_event_was_tool_call
                ELSE IF TextRoute(is_after_tool_output, has_sent_think) = "think"
                   THEN /\ Yield(<<ThinkEvent(current_text_buffer \o e.data.delta)>>,
                                 <<(<<Len(pulled) + 1>>)>>)
                        /\ pc' = "yield_think"
                        /\ UNCHANGED last_event_was_tool_call
                ELSE /\ Yield(<<>>, <<>>)
                     /\ last_event_was_tool_call' = FALSE
                     /\ UNCHANGED pc
             /\ UNCHANGED <<has_sent_think, is_after_tool_output,
                            is_thinking_phase, has_called_tool, think_was_sent>>
        ELSE UNCHANGED <<pc, out, history, current_text_buffer, flags>>
    /\ UNCHANGED <<services, front, pair, earlier, method, mcp_servers, chunks>>

\* A raw_response_event carrying a ResponseTextDeltaEvent.  The generator is
\* left suspended at the yield it reaches: the statements after the yield
\* run when the consumer asks for the next event (Resumed).  A delta that is
\* only buffered reaches no yield, so the loop body runs to its end.
TextDelta(e) ==
    /\ Events
    /\ IsTextDelta(e)
    /\ Pull(e)
    /\ IF DeltaIsTruthy(e.data.delta)
        THEN /\ current_text_buffer' = current_text_buffer \o e.data.delta
             /\ bufFrags' = Append(bufFrags, Len(pulled) + 1)
             /\ IF TextRoute(is_after_tool_output, has_sent_think) = "text_delta"
                   THEN /\ Yield(<<TextDeltaOut(e.data.delta)>>, <<(<<Len(pulled) + 1>>)>>)
                        /\ pc' = "yield_text_delta"
                        /\ UNCHANGED last_event_was_tool_call
                ELSE IF TextRoute(is_after_tool_output, has_sent_think) = "think"
                   THEN /\ Yield(<<ThinkEvent(e.data.delta)>>,
                                 <<(<<Len(pulled) + 1>>)>>)
                        /\ pc' = "yield_think"
                        /\ UNCHANGED last_event_was_tool_call
                ELSE /\ Yield(<<>>, <<>>)
                     /\ last_event_was_tool_call' = FALSE
                     /\ UNCHANGED pc
             /\ UNCHANGED <<has_sent_think, is_after_tool_output,
                            is_thinking_phase, has_called_tool, think_was_sent>>
        ELSE UNCHANGED <<pc, out, history, current_text_buffer, flags>>
    /\ UNCHANGED <<services, front, pair, earlier, method, mcp_servers, chunks>>

\* The places where the generator is suspended with statements still to run.
YieldPoints == {"yield_think", "yield_text_delta", "yield_flush"}

\* The consumer asks for the next event while the generator is suspended at
\* a yield: after the think yield is_thinking_phase and think_was_sent are
\* set, after either yield of the text branch last_event_was_tool_call is
\* cleared and the loop waits for the next raw event; after the yield of
\* the flush the complete event is yielded and the generator returns.
Resumed ==
    /\ Events
    /\ pc \in YieldPoints
    /\ IF pc = "yield_flush"
        THEN /\ Yield(<<CompleteEvent>>, <<(<<>>)>>)
             /\ pc' = "done"
             /\ UNCHANGED <<bufFrags, flags>>
        ELSE /\ pc' = "streaming"
             /\ is_thinking_phase' = (pc = "yield_think" \/ is_thinking_phase)
             /\ think_was_sent' = (pc = "yield_think" \/ think_was_sent)
             /\ last_event_was_tool_call' = FALSE
             /\ UNCHANGED <<out, history, has_sent_think, is_after_tool_output,
                            has_called_tool>>
    /\ UNCHANGED <<services, front, pair, earlier, method, mcp_servers, pulled, chunks,
                   current_text_buffer>>

\* Variant: the tool_call yield sits under `if not has_sent_think:`, so only
\* the first call of a turn is reported.
ToolCallItem_OnlyFirst(e) ==
    /\ Events
    /\ IsRunItem(e)
    /\ e.item.type = "tool_call_item"
    /\ Pull(e)
    /\ has_sent_think' = TRUE
    /\ is_thinking_phase' = (IF ~has_sent_think THEN FALSE ELSE is_thinking_phase)
    /\ has_called_tool' = TRUE
    /\ current_text_buffer' = <<>>
    /\ bufFrags' = <<>>
    /\ last_event_was_tool_call' = TRUE
    /\ is_after_tool_output' = FALSE
    /\ IF ~has_sent_think
        THEN Yield(<<ToolCallEvent(mcp_servers, e.item)>>, <<(<<>>)>>)
        ELSE Yield(<<>>, <<>>)
    /\ UNCHANGED <<services, front, pair, earlier, method, mcp_servers, pc, chunks, think_was_sent>>

\* Variant: text still buffered when a tool call arrives is yielded as a
\* text_delta ahead of the tool_call instead of being dropped.
ToolCallItem_FlushesPending(e) ==
    /\ Events
    /\ IsRunItem(e)
    /\ e.item.type = "tool_call_item"
    /\ Pull(e)
    /\ has_sent_think' = TRUE
    /\ is_thinking_phase' = (IF ~has_sent_think THEN FALSE ELSE is_thinking_phase)
    /\ has_called_tool' = TRUE
    /\ current_text_buffer' = <<>>
    /\ bufFrags' = <<>>
    /\ last_event_was_tool_call' = TRUE
    /\ is_after_tool_output' = FALSE
    /\ IF has_sent_think /\ ~is_after_tool_output /\ current_text_buffer # <<>>
        THEN Yield(<<TextDeltaOut(current_text_buffer),
                     ToolCallEvent(mcp_servers, e.item)>>, <<bufFrags, <<>>>>)
        ELSE Yield(<<ToolCallEvent(mcp_servers, e.item)>>, <<(<<>>)>>)
    /\ UNCHANGED <<services, front, pair, earlier, method, mcp_servers, pc, chunks, think_was_sent>>

\* A run_item_stream_event whose item is a tool_call_item.
ToolCallItem(e) ==
    /\ Events
    /\ IsRunItem(e)
    /\ e.item.type = "tool_call_item"
    /\ Pull(e)
    /\ has_sent_think' = TRUE
    /\ is_thinking_phase' = (IF ~has_sent_think THEN FALSE ELSE is_thinking_phase)
    /\ has_called_tool' = TRUE
    /\ current_text_buffer' = <<>>
    /\ bufFrags' = <<>>
    /\ last_event_was_tool_call' = TRUE
    /\ is_after_tool_output' = FALSE
    /\ out' = Append(out, ToolCallEvent(mcp_servers, e.item))
    /\ outCause' = Append(outCause, Len(pulled) + 1)
    /\ outFrags' = Append(outFrags, <<>>)
    /\ UNCHANGED <<services, front, pair, earlier, method, mcp_servers, pc, chunks, think_was_sent>>

\* Variant: a tool output does not open the answer phase.
ToolCallOutputItem_NoAnswerPhase(e) ==
    /\ Events
    /\ IsRunItem(e)
    /\ e.item.type = "tool_call_output_item"
    /\ Pull(e)
    /\ last_event_was_tool_call' = FALSE
    /\ out' = Append(out, ToolOutputEvent(e.item))
    /\ outCause' = Append(outCause, Len(pulled) + 1)
    /\ outFrags' = Append(outFrags, <<>>)
    /\ UNCHANGED <<services, front, pair, earlier, method, mcp_servers, pc, chunks, bufFrags,
                   current_text_buffer, has_sent_think, is_after_tool_output,
                   is_thinking_phase, has_called_tool, think_was_sent>>

\* A run_item_stream_event whose item is a tool_call_output_item.
ToolCallOutputItem(e) ==
    /\ Events
    /\ IsRunItem(e)
    /\ e.item.type = "tool_call_output_item"
    /\ Pull(e)
    /\ last_event_was_tool_call' = FALSE
    /\ is_after_tool_output' = TRUE
    /\ out' = Append(out, ToolOutputEvent(e.item))
    /\ outCause' = Append(outCause, Len(pulled) + 1)
    /\ outFrags' = Append(outFrags, <<>>)
    /\ UNCHANGED <<services, front, pair, earlier, method, mcp_servers, pc, chunks, bufFrags, current_text_buffer,
                   has_sent_think, is_thinking_phase, has_called_tool,
                   think_was_sent>>

\* A run_item_stream_event with any other item: no branch matches.
OtherRunItem(e) ==
    /\ Events
    /\ IsRunItem(e)
    /\ e.item.type \notin {"tool_call_item", "tool_call_output_item"}
    /\ Pull(e)
    /\ UNCHANGED <<services, front, pair, earlier, method, mcp_servers, pc, chunks, out, history,
                   current_text_buffer, flags>>

\* Variant: an unknown event ends the answer phase.
UnhandledEvent_ResetsPhase(e) ==
    /\ Events
    /\ ~IsTextDelta(e)
    /\ ~IsRunItem(e)
    /\ Pull(e)
    /\ is_after_tool_output' = FALSE
    /\ UNCHANGED <<services, front, pair, earlier, method, mcp_servers, pc, chunks, out, history,
                   current_text_buffer, last_event_was_tool_call,
                   has_sent_think, is_thinking_phase, has_called_tool,
                   think_was_sent>>

\* The final else: any other event is only logged.
UnhandledEvent(e) ==
    /\ Events
    /\ ~IsTextDelta(e)
    /\ ~IsRunItem(e)
    /\ Pull(e)
    /\ UNCHANGED <<services, front, pair, earlier, method, mcp_servers, pc, chunks, out, history,
                   current_text_buffer, flags>>

\* Variant: the flush does not look at what was already streamed.
ShouldFlushBuffer_IgnoresStreamed(buffer, after_tool_output, think_sent, called_tool) ==
    StripNonEmpty(buffer)

\* After the loop: is the remaining buffer yielded as one text_delta?
ShouldFlushBuffer(buffer, after_tool_output, think_sent, called_tool) ==
    /\ StripNonEmpty(buffer)
    /\ ~after_tool_output
    /\ ~think_sent
    /\ ~called_tool

\* Variant: the complete yield sits inside `if current_text_buffer.strip():`.
EndOfStream_CompleteInsideIf ==
    /\ Events
    /\ pc = "streaming"
    /\ IF StripNonEmpty(current_text_buffer)
        THEN IF ShouldFlushBuffer(current_text_buffer, is_after_tool_output,
                                  think_was_sent, has_called_tool)
                THEN /\ Yield(<<TextDeltaOut(current_text_buffer)>>,
                              <<bufFrags>>)
                     /\ pc' = "yield_flush"
                ELSE /\ Yield(<<CompleteEvent>>, <<(<<>>)>>)
                     /\ pc' = "done"
        ELSE /\ Yield(<<>>, <<>>)
             /\ pc' = "done"
    /\ UNCHANGED <<services, front, pair, earlier, method, mcp_servers, pulled, chunks, bufFrags,
                   current_text_buffer, flags>>

\* stream_events() is exhausted: the buffer is flushed as one text_delta
\* (the complete event follows when the generator is resumed), or the
\* complete event is yielded at once.
EndOfStream ==
    /\ Events
    /\ pc = "streaming"
    /\ IF ShouldFlushBuffer(current_text_buffer, is_after_tool_output,
                            think_was_sent, has_called_tool)
        THEN /\ Yield(<<TextDeltaOut(current_text_buffer)>>, <<bufFrags>>)
             /\ pc' = "yield_flush"
        ELSE /\ Yield(<<CompleteEvent>>, <<(<<>>)>>)
             /\ pc' = "done"
    /\ UNCHANGED <<services, front, pair, earlier, method, mcp_servers, pulled, chunks, bufFrags,
                   current_text_buffer, flags>>

\* Variant: the failure is answered with a complete event before re-raising.
SourceRaises_Completes ==
    /\ Events
    /\ pc = "streaming"
    /\ Yield(<<CompleteEvent>>, <<(<<>>)>>)
    /\ pc' = "raised"
    /\ UNCHANGED <<services, front, pair, earlier, method, mcp_servers, pulled, chunks, bufFrags,
                   current_text_buffer, flags>>

\* stream_events() raises (engine error, timeout): logged and re-raised.
SourceRaises ==
    /\ Events
    /\ pc = "streaming"
    /\ pc' = "raised"
    /\ UNCHANGED <<services, front, pair, earlier, method, mcp_servers, pulled, chunks, out, history,
                   current_text_buffer, flags>>

-----------------------------------------------------------------------------
\* run_with_stream

Stream == method = "run_with_stream"

\* A text delta event: the delta is yielded when it is truthy.
StreamTextDelta(e) ==
    /\ Stream
    /\ IsTextDelta(e)
    /\ Pull(e)
    /\ chunks' = (IF DeltaIsTruthy(e.data.delta) THEN Append(chunks, e.data.delta)
                  ELSE chunks)
    /\ UNCHANGED <<services, front, pair, earlier, method, mcp_servers, pc, out, history, current_text_buffer, flags>>

\* Every other event is ignored.
StreamOtherEvent(e) ==
    /\ Stream
    /\ ~IsTextDelta(e)
    /\ Pull(e)
    /\ UNCHANGED <<services, front, pair, earlier, method, mcp_servers, pc, chunks, out, history,
                   current_text_buffer, flags>>

StreamEnd ==
    /\ Stream
    /\ pc = "streaming"
    /\ pc' = "done"
    /\ UNCHANGED <<services, front, pair, earlier, method, mcp_servers, pulled, chunks, out, history,
                   current_text_buffer, flags>>

StreamRaises ==
    /\ Stream
    /\ pc = "streaming"
    /\ pc' = "raised"
    /\ UNCHANGED <<services, front, pair, earlier, method, mcp_servers, pulled, chunks, out, history,
                   current_text_buffer, flags>>

-----------------------------------------------------------------------------
Next ==
    \/ \E e \in RawEvents : TextDelta(e)
    \/ \E e \in RawEvents : ToolCallItem(e)
    \/ \E e \in RawEvents : ToolCallOutputItem(e)
    \/ \E e \in RawEvents : OtherRunItem(e)
    \/ \E e \in RawEvents : UnhandledEvent(e)
    \/ Resumed
    \/ EndOfStream
    \/ SourceRaises
    \/ \E e \in RawEvents : StreamTextDelta(e)
    \/ \E e \in RawEvents : StreamOtherEvent(e)
    \/ StreamEnd
    \/ StreamRaises

Spec == Init /\ [][Next]_vars

-----------------------------------------------------------------------------
\* Properties

\* Concatenation of a sequence of strs.
RECURSIVE Concat(_)
Concat(ss) == IF ss = <<>> THEN <<>> ELSE Head(ss) \o Concat(Tail(ss))

IsTextOut(ev) == ev.type \in {"think", "text_delta"}
IsToolOut(ev) == ev.type \in {"tool_call", "tool_output"}
IsComplete(ev) == ev.type = "complete"
IsToolCallRaw(e) == IsRunItem(e) /\ e.item.type = "tool_call_item"
IsToolOutputRaw(e) == IsRunItem(e) /\ e.item.type = "tool_call_output_item"
IsToolRaw(e) == IsToolCallRaw(e) \/ IsToolOutputRaw(e)
IsUnrecognised(e) == ~IsTextDelta(e) /\ ~IsToolRaw(e)

\* All text the classifier has emitted, and all text of the raw stream.
EmittedText == Concat([i \in 1..Len(SelectSeq(out, IsTextOut)) |->
                          SelectSeq(out, IsTextOut)[i].content])
RawText == Concat([i \in 1..Len(SelectSeq(pulled, IsTextDelta)) |->
                      SelectSeq(pulled, IsTextDelta)[i].data.delta])

LastPulled == pulled[Len(pulled)]
JustPulled == Len(pulled') = Len(pulled) + 1

\* C1: a turn whose source ends without raising has yielded exactly one
\* complete event, as its last event; before the end none has been yielded.
C1_OneCompleteLast ==
    Events =>
        /\ pc = "done" =>
            /\ Len(out) >= 1
            /\ IsComplete(out[Len(out)])
            /\ Len(SelectSeq(out, IsComplete)) = 1
        /\ pc # "done" => Len(SelectSeq(out, IsComplete)) = 0

C1_Witness ==
    /\ Events
    /\ pc = "done"
    /\ Len(pulled) >= 3
    /\ Len(out) >= 3

\* C2: when the turn is over, the think and text_delta contents concatenate
\* to the text of the raw stream.  (Fails: text between a tool call and its
\* output is never yielded.)
C2_NoTextLostOrRepeated ==
    (Events /\ pc = "done") => EmittedText = RawText

C3_Witness ==
    /\ Events
    /\ pc = "done"
    /\ is_after_tool_output
    /\ StripNonEmpty(current_text_buffer)
    /\ \E i \in 1..Len(out) : out[i].type = "text_delta"

\* C3: every text event carries exactly the deltas recorded for it, and no
\* pulled delta is carried by two events or twice by one.
C3_FragmentEmittedOnce ==
    Events =>
        /\ \A i \in 1..Len(out) :
            /\ IsTextOut(out[i]) =>
                out[i].content =
                    Concat([k \in 1..Len(outFrags[i]) |->
                               pulled[outFrags[i][k]].data.delta])
            /\ ~IsTextOut(out[i]) => outFrags[i] = <<>>
        /\ \A i, j \in 1..Len(out) :
            \A k \in 1..Len(outFrags[i]), l \in 1..Len(outFrags[j]) :
                outFrags[i][k] = outFrags[j][l] => (i = j /\ k = l)

\* C4: a tool output pulled while text is buffered since the last tool call
\* yields tool_output and then the buffer as one text_delta.  (Fails: only
\* tool_output is yielded.)
C4_BufferFlushedAfterResult ==
    [][(/\ Events
        /\ JustPulled
        /\ IsToolOutputRaw(pulled'[Len(pulled')])
        /\ has_called_tool
        /\ ~is_after_tool_output
        /\ current_text_buffer # <<>>)
       => out' = out \o <<ToolOutputEvent(pulled'[Len(pulled')].item),
                          TextDeltaOut(current_text_buffer)>>]_vars

\* C5: a turn that ends with a tool call unresolved and text buffered since
\* yields that text as one text_delta right before complete.  (Fails: the
\* buffer is dropped.)
C5_PendingTextFlushedAtEnd ==
    (/\ Events
     /\ pc = "done"
     /\ has_called_tool
     /\ ~is_after_tool_output
     /\ StripNonEmpty(current_text_buffer))
    => /\ Len(out) >= 2
       /\ out[Len(out) - 1] = TextDeltaOut(current_text_buffer)
       /\ IsComplete(out[Len(out)])

NoToolRaw == \A i \in 1..Len(pulled) : ~IsToolRaw(pulled[i])
IsNonEmptyTextDelta(e) == IsTextDelta(e) /\ e.data.delta # <<>>
ExpectedThinks ==
    [i \in 1..Len(SelectSeq(pulled, IsNonEmptyTextDelta)) |->
        ThinkEvent(SelectSeq(pulled, IsNonEmptyTextDelta)[i].data.delta)]

\* C6: in a turn with no tool call and no tool output the events are one
\* think per non-empty delta, in order, then complete; no text_delta.
C6_ToolFreeTurnIsThinkingOnly ==
    (Events /\ NoToolRaw) =>
        /\ pc = "done" => out = ExpectedThinks \o <<CompleteEvent>>
        /\ pc # "done" => out = ExpectedThinks

C6_Witness ==
    /\ Events
    /\ NoToolRaw
    /\ pc = "done"
    /\ Len(ExpectedThinks) >= 2
    /\ Len(pulled) > Len(ExpectedThinks)
    /\ StripNonEmpty(current_text_buffer)

\* C7: pulling a text delta whose text is empty yields nothing and changes
\* no classifier state, in run_with_stream and run_with_stream_and_events.
C7_EmptyDeltaIsNoOp ==
    [][(/\ JustPulled
        /\ IsTextDelta(pulled'[Len(pulled')])
        /\ pulled'[Len(pulled')].data.delta = <<>>)
       => UNCHANGED <<out, chunks, current_text_buffer, flags>>]_vars

C7_Witness ==
    /\ Events
    /\ is_after_tool_output
    /\ Len(pulled) >= 2
    /\ LastPulled = TextDeltaEvent(<<>>)
    /\ out[Len(out)].type = "tool_output"

ExpectedToolEvents ==
    [i \in 1..Len(SelectSeq(pulled, IsToolRaw)) |->
        IF IsToolCallRaw(SelectSeq(pulled, IsToolRaw)[i])
            THEN ToolCallEvent(mcp_servers, SelectSeq(pulled, IsToolRaw)[i].item)
            ELSE ToolOutputEvent(SelectSeq(pulled, IsToolRaw)[i].item)]

LookupScenario ==
    <<TextDeltaEvent(<<"a">>), RunItemEvent(CallLookup),
      RunItemEvent(OutputOnItem), TextDeltaEvent(<<"b">>)>>

\* C8: the tool events yielded are, one for one and in order, those of the
\* tool calls and tool outputs pulled; every event is yielded no earlier
\* than the events caused by earlier raw events; and the lookup scenario
\* yields think, tool_call, tool_output, text_delta, complete.
C8_ToolEventsOneToOneInOrder ==
    Events =>
        /\ SelectSeq(out, IsToolOut) = ExpectedToolEvents
        /\ \A i \in 1..Len(out) :
            /\ i < Len(out) => outCause[i] <= outCause[i + 1]
            /\ out[i].type = "tool_call" => IsToolCallRaw(pulled[outCause[i]])
            /\ out[i].type = "tool_output" => IsToolOutputRaw(pulled[outCause[i]])
            /\ IsTextOut(out[i]) => IsTextDelta(pulled[outCause[i]])
        /\ (pulled = LookupScenario /\ pc = "done") =>
            out = <<ThinkEvent(<<"a">>),
                    [type |-> "tool_call", tool_name |-> LOOKUP,
                     arguments |-> PyDict({<<<<"q">>, <<"x">>>>})],
                    [type |-> "tool_output", tool_name |-> TOOL_OUTPUT_NAME,
                     output |-> PyStr(<<"4", "2">>)],
                    TextDeltaOut(<<"b">>),
                    CompleteEvent>>

C8_Witness ==
    /\ Events
    /\ pulled = LookupScenario
    /\ pc = "done"
    /\ Len(out) = 5

\* C9: pulling an event that is neither a text delta nor a tool call or
\* tool output yields nothing, changes no flag and not the buffer, and the
\* turn goes on.
C9_UnrecognisedEventSkipped ==
    [][(/\ Events
        /\ JustPulled
        /\ IsUnrecognised(pulled'[Len(pulled')]))
       => /\ UNCHANGED <<out, current_text_buffer, flags>>
          /\ pc' = "streaming"]_vars

C9_Witness ==
    /\ Events
    /\ pc = "done"
    /\ Len(pulled) >= 3
    /\ pulled[1] \in OtherEvents
    /\ IsUnrecognised(pulled[2])
    /\ IsNonEmptyTextDelta(pulled[3])
    /\ out = <<ThinkEvent(pulled[3].data.delta), CompleteEvent>>

\* C10 as stated: a turn whose source fails still ends with complete.
C10_FailureEndsWithComplete ==
    (Events /\ pc = "raised") =>
        (Len(out) >= 1 /\ IsComplete(out[Len(out)]))

\* C10 amended: a source that raises makes the generator raise without any
\* complete event; only a source that ends without raising, early or not,
\* ends the output with complete.
C10_FailurePropagates ==
    Events =>
        /\ pc = "raised" => Len(SelectSeq(out, IsComplete)) = 0
        /\ pc = "done" => (Len(out) >= 1 /\ IsComplete(out[Len(out)]))

C10_Witness ==
    /\ Events
    /\ pc = "raised"
    /\ Len(pulled) >= 2
    /\ Len(out) >= 1

-----------------------------------------------------------------------------
\* Tool reference resolution: turns of run_with_stream_and_events that pull
\* tool calls of every field layout, with several lists of connected servers.

ToolMaxCalls == 2

WEB == <<"w", "e", "b">>
FILES_READ == FILES \o <<COLON>> \o READ
A_B_C == <<"a", COLON, "b", COLON, "c">>
COLON_READ == <<COLON>> \o READ

QueryDict == PyDict({<<(<<"q">>), PyStr(<<"x">>)>>})
BrokenFunction ==
    [present |-> TRUE, name |-> <<>>, has_arguments |-> TRUE,
     arguments |-> PyStr(JsonBroken)]
\* A function object whose attribute `arguments` is None.
NoneFunction ==
    [present |-> TRUE, name |-> <<>>, has_arguments |-> TRUE,
     arguments |-> PyNone]
\* A function object with a name and no attribute `arguments`.
BareFunction == [NoFunction EXCEPT !.present = TRUE, !.name = READ]

\* A tool_call_item; its raw_item exists when it carries a name or arguments.
ToolCallWith(raw_name, raw_arguments, name, arguments, args, function) ==
    [BlankItem("tool_call_item") EXCEPT
        !.raw_item = [NoRawItem EXCEPT
                         !.present = (raw_name # <<>> \/ raw_arguments # PyNone),
                         !.name = raw_name,
                         !.arguments = raw_arguments],
        !.name = name,
        !.arguments = arguments,
        !.args = args,
        !.function = function]

RawNames == {<<>>, READ, LOOKUP, FILES_READ, A_B_C}
ItemNames == {<<>>, COLON_READ}
NameVariety ==
    {RunItemEvent(ToolCallWith(rn, PyNone, n, PyNone, PyNone, NoFunction)) :
        rn \in RawNames, n \in ItemNames}

RawArguments == {PyNone, PyStr(JsonBroken), PyStr(JsonQueryObject)}
ItemArguments == {PyNone, PyStr(JsonBroken), QueryDict}
Functions == {NoFunction, BrokenFunction, NoneFunction, BareFunction}
ArgumentVariety ==
    {RunItemEvent(ToolCallWith(READ, ra, <<>>, a, PyNone, f)) :
        ra \in RawArguments, a \in ItemArguments, f \in Functions}
    \cup {RunItemEvent(ToolCallWith(READ, PyNone, <<>>, PyNone,
                                    PyStr(JsonBroken), NoFunction))}

ToolCallVariety == NameVariety \cup ArgumentVariety

\* Connected servers: none, one that declares `read`, and two that both
\* declare `read`.
WebServer == McpServer(WEB, <<LOOKUP \o READ, READ>>)
ToolServerLists == {<<>>, <<FilesServer>>, <<WebServer, FilesServer>>}

ToolsInit ==
    /\ method = "run_with_stream_and_events"
    /\ mcp_servers \in ToolServerLists
    /\ pc = "streaming"
    /\ pulled = <<>>
    /\ chunks = <<>>
    /\ out = <<>>
    /\ outCause = <<>>
    /\ outFrags = <<>>
    /\ bufFrags = <<>>
    /\ current_text_buffer = <<>>
    /\ last_event_was_tool_call = FALSE
    /\ has_sent_think = FALSE
    /\ is_after_tool_output = FALSE
    /\ is_thinking_phase = FALSE
    /\ has_called_tool = FALSE
    /\ think_was_sent = FALSE
    /\ NoFrontEnd
    /\ NoPair
    /\ NoServices

ToolsNext ==
    \/ \E e \in ToolCallVariety : Len(pulled) < ToolMaxCalls /\ ToolCallItem(e)
    \/ EndOfStream

SpecTools == ToolsInit /\ [][ToolsNext]_vars

\* The tool_call events yielded so far, with the item each was made from.
ToolCallsOut == {i \in 1..Len(out) : out[i].type = "tool_call"}
ItemOf(i) == pulled[outCause[i]].item

\* Position of the first separator of a name, 0 when it has none.
FirstColon(name) ==
    IF \E k \in 1..Len(name) : name[k] = COLON
        THEN CHOOSE k \in 1..Len(name) :
                 /\ name[k] = COLON
                 /\ \A j \in 1..(k - 1) : name[j] # COLON
        ELSE 0
BeforeColon(name) == SubSeq(name, 1, FirstColon(name) - 1)
AfterColon(name) == SubSeq(name, FirstColon(name) + 1, Len(name))

\* C18: a tool name with the separator is split once at the first separator
\* into (provider, tool) whatever servers are connected, and the tool_call
\* event presents provider:tool, which is the name as it came ('files:read'
\* gives provider 'files', tool 'read', presented 'files:read'); an empty
\* provider part leaves the tool part alone.
C18_QualifiedNameSplitOnce ==
    \A i \in ToolCallsOut :
        LET name == ResolveCallName(ItemOf(i)) IN
        FirstColon(name) # 0 =>
            /\ ResolveProvider(mcp_servers, name) =
                   [server_name |-> BeforeColon(name),
                    tool_name |-> AfterColon(name)]
            /\ out[i].tool_name =
                   (IF BeforeColon(name) # <<>> THEN name ELSE AfterColon(name))
            /\ (name = FILES_READ =>
                   /\ ResolveProvider(mcp_servers, name).server_name = FILES
                   /\ ResolveProvider(mcp_servers, name).tool_name = READ
                   /\ out[i].tool_name = FILES_READ)

C18_Witness ==
    /\ mcp_servers = <<WebServer, FilesServer>>
    /\ \E i, j \in ToolCallsOut :
        /\ out[i].tool_name = FILES_READ
        /\ out[j].tool_name = A_B_C

\* Whether the tools a server declares contain exactly this name.
Declares(server, name) ==
    \E k \in 1..Len(server.tools) : server.tools[k] = name
FirstDeclaring(servers, name) ==
    IF \E k \in 1..Len(servers) : Declares(servers[k], name)
        THEN CHOOSE k \in 1..Len(servers) :
                 /\ Declares(servers[k], name)
                 /\ \A j \in 1..(k - 1) : ~Declares(servers[j], name)
        ELSE 0

\* How a provider is shown: by its name, and by the text of str(server) when
\* it has no name.
ProviderShown(server) ==
    IF server.name = <<>> THEN server.str ELSE server.name

\* C19: for a tool name without the separator the provider is the first
\* connected server, in list order, whose declared tools contain exactly
\* that name, and the event presents provider:tool; when no server declares
\* it the provider is absent and the event carries the bare name.
C19_FirstDeclaringProvider ==
    \A i \in ToolCallsOut :
        LET name == ResolveCallName(ItemOf(i))
            first == FirstDeclaring(mcp_servers, name) IN
        FirstColon(name) = 0 =>
            IF first = 0
                THEN /\ ResolveProvider(mcp_servers, name).server_name = <<>>
                     /\ out[i].tool_name = name
                ELSE /\ ResolveProvider(mcp_servers, name).server_name =
                            ProviderShown(mcp_servers[first])
                     /\ out[i].tool_name =
                            ProviderShown(mcp_servers[first])
                                \o <<COLON>> \o name

\* The places of a tool_call_item that can carry arguments.
ArgumentPlaces(item) ==
    {item.raw_item.arguments, item.arguments, item.args, item.function.arguments}
IsUndecodable(v) == v.t = "str" /\ ~JsonLoads(v.s).ok
OnlyUndecodableArguments(item) ==
    /\ \E v \in ArgumentPlaces(item) : IsUndecodable(v)
    /\ \A v \in ArgumentPlaces(item) : v = PyNone \/ IsUndecodable(v)

\* C20: every tool_call_item pulled yields its tool_call event and the turn
\* goes on; when the arguments it carries are text that cannot be decoded
\* (e.g. '{not json') the event's arguments are the empty mapping.
C20_UndecodableArgumentsAreEmpty ==
    /\ pc # "raised"
    /\ Cardinality(ToolCallsOut) = Len(pulled)
    /\ \A i \in ToolCallsOut :
        /\ IsToolCallRaw(pulled[outCause[i]])
        /\ OnlyUndecodableArguments(ItemOf(i)) => out[i].arguments = PyDict({})

-----------------------------------------------------------------------------
\* The front ends: CLI.run and WebSocketHandler start one turn per user input
\* and take the events of run_with_stream_and_events one at a time.

FrontMaxEvents == 3
MaxTurns == 2

FrontEvents ==
    {TextDeltaEvent(<<"a">>), RunItemEvent(CallRead), RunItemEvent(OutputOnItem)}

\* Events of a stand-in agent (tests/test_web_api.py replaces the agent by a
\* generator that yields presentation events of its own).
MockEvents ==
    {ThinkEvent(<<"a">>), TextDeltaOut(<<"b">>), ToolCallEvent(<<>>, CallRead),
     ToolOutputEvent(OutputOnItem), CompleteEvent}
AgentMethods == {"run_with_stream_and_events", "mock_stream"}

FrontInit ==
    /\ front_end \in {"cli", "web"}
    /\ handler = "idle"
    /\ turns = 0
    /\ failed_turns = 0
    /\ consumed = 0
    /\ has_tool_call = FALSE
    /\ has_tool_output = FALSE
    /\ think_was_converted = FALSE
    /\ wire = <<>>
    /\ thinking_started = FALSE
    /\ printed = <<>>
    /\ method = "run_with_stream_and_events"
    /\ mcp_servers = <<FilesServer>>
    /\ pc = "streaming"
    /\ pulled = <<>>
    /\ chunks = <<>>
    /\ out = <<>>
    /\ outCause = <<>>
    /\ outFrags = <<>>
    /\ bufFrags = <<>>
    /\ current_text_buffer = <<>>
    /\ last_event_was_tool_call = FALSE
    /\ has_sent_think = FALSE
    /\ is_after_tool_output = FALSE
    /\ is_thinking_phase = FALSE
    /\ has_called_tool = FALSE
    /\ think_was_sent = FALSE
    /\ NoPair
    /\ NoServices

\* agent.run_with_stream_and_events(content) is called: a new generator with
\* its own flags and buffer, nothing pulled yet.
StartTurn(m) ==
    /\ handler = "idle"
    /\ turns < MaxTurns
    /\ handler' = "turn"
    /\ turns' = turns + 1
    /\ consumed' = 0
    /\ method' = m
    /\ pc' = "streaming"
    /\ pulled' = <<>>
    /\ chunks' = <<>>
    /\ out' = <<>>
    /\ outCause' = <<>>
    /\ outFrags' = <<>>
    /\ bufFrags' = <<>>
    /\ current_text_buffer' = <<>>
    /\ last_event_was_tool_call' = FALSE
    /\ has_sent_think' = FALSE
    /\ is_after_tool_output' = FALSE
    /\ is_thinking_phase' = FALSE
    /\ has_called_tool' = FALSE
    /\ think_was_sent' = FALSE
    /\ UNCHANGED <<services, front_end, failed_turns, mcp_servers, pair, earlier>>

\* The handler is inside websocket.send: the message last handed to
\* _send_message has neither gone through nor failed yet.
Sending == wire # <<>> /\ wire[Len(wire)].pending

\* The generator runs only while its consumer waits for the next event.
Awaiting == handler = "turn" /\ consumed = Len(out) /\ ~Sending

FrontTextDelta(e) == Awaiting /\ Len(pulled) < FrontMaxEvents /\ TextDelta(e)
FrontToolCallItem(e) == Awaiting /\ Len(pulled) < FrontMaxEvents /\ ToolCallItem(e)
FrontToolCallOutputItem(e) ==
    Awaiting /\ Len(pulled) < FrontMaxEvents /\ ToolCallOutputItem(e)
FrontResumed == Awaiting /\ Resumed
FrontEndOfStream == Awaiting /\ EndOfStream
FrontSourceRaises == Awaiting /\ SourceRaises

\* The stand-in agent yields an event of its own, or returns.
MockYields(ev) ==
    /\ method = "mock_stream"
    /\ Awaiting
    /\ pc = "streaming"
    /\ Len(out) < FrontMaxEvents
    /\ out' = Append(out, ev)
    /\ outCause' = Append(outCause, 0)
    /\ outFrags' = Append(outFrags, <<>>)
    /\ UNCHANGED <<services, front, pair, earlier, method, mcp_servers, pc, pulled, chunks, bufFrags,
                   current_text_buffer, flags>>

MockReturns ==
    /\ method = "mock_stream"
    /\ Awaiting
    /\ pc = "streaming"
    /\ pc' = "done"
    /\ UNCHANGED <<services, front, pair, earlier, method, mcp_servers, pulled, chunks, out, history,
                   current_text_buffer, flags>>

\* The task that runs the turn is cancelled at one of its waits: for the
\* next raw event, or inside websocket.send (the send of a relayed event or
\* of the error message).  CancelledError and KeyboardInterrupt are not
\* Exceptions, so no except clause of the front end catches them: the
\* generator is dropped where it is, and a send under way stays unanswered.
Cancelled ==
    /\ handler = "turn"
    /\ Sending \/ (Awaiting /\ pc = "streaming")
    /\ handler' = "closed"
    /\ UNCHANGED <<services, front_end, turns, failed_turns, consumed, adapter, wire,
                   thinking_started, printed, pair, earlier, method, mcp_servers, pc,
                   pulled, chunks, out, history, current_text_buffer, flags>>

-----------------------------------------------------------------------------
\* WebSocketHandler

ErrorMessage == [type |-> "error"]

\* Variant: a think event is sent as it is.
ThinkMessage_Unchanged(event) == event

\* The message sent for a think event.
ThinkMessage(event) == [type |-> "text_delta", content |-> event.content]

\* Variant: every text_delta is sent.
TextDeltaIsSent_Always(converted, tool_call, tool_output) == TRUE

\* Variant: the elif has_tool_output branch is missing, so a text_delta is
\* sent only in a turn without think and without tool call.
TextDeltaIsSent_OnlyDirectAnswer(converted, tool_call, tool_output) ==
    ~converted /\ ~tool_call

\* The if / elif chain of the text_delta branch.
TextDeltaIsSent(converted, tool_call, tool_output) ==
    IF converted /\ ~tool_call THEN FALSE
    ELSE IF tool_output THEN TRUE
    ELSE IF ~converted /\ ~tool_call THEN TRUE
    ELSE FALSE

\* One pass of the loop body: the flags after the event and the messages
\* handed to _send_message.
RelayEvent(a, event) ==
    IF event.type = "think"
        THEN [a EXCEPT !.think_was_converted = TRUE,
                       !.send = <<ThinkMessage(event)>>]
    ELSE IF event.type = "tool_call"
        THEN [a EXCEPT !.has_tool_call = TRUE,
                       !.think_was_converted = FALSE,
                       !.send = <<event>>]
    ELSE IF event.type = "tool_output"
        THEN [a EXCEPT !.has_tool_output = TRUE, !.send = <<event>>]
    ELSE IF event.type = "text_delta"
        THEN [a EXCEPT !.send =
                 IF TextDeltaIsSent(a.think_was_converted, a.has_tool_call,
                                    a.has_tool_output)
                     THEN <<event>> ELSE <<>>]
    ELSE [a EXCEPT !.send = <<event>>]

AdapterFlags ==
    [has_tool_call |-> has_tool_call, has_tool_output |-> has_tool_output,
     think_was_converted |-> think_was_converted, send |-> <<>>]

\* _send_message(data) up to the await of websocket.send: one record per
\* call; pending while the handler waits inside websocket.send, delivered
\* whether the send went through, event the position in out of the event
\* sent (0 for the error message of the except clause).
SendMessage(messages, event) ==
    wire' = wire \o [i \in 1..Len(messages) |->
                        [data |-> messages[i], pending |-> TRUE,
                         delivered |-> FALSE, event |-> event]]

\* A send that has ended in the except clause of _send_message.
SendFailed(w) == ~w.pending /\ ~w.delivered

\* Variant: a failed send raises into _handle_user_message, which ends the turn.
SendOutcome_Raises(delivered) == IF delivered THEN "turn" ELSE "idle"

\* Where the handler is after _send_message returns: the except clause of
\* _send_message logs the failure and raises nothing.
SendOutcome(delivered) == "turn"

\* A user message arrives on the connection.
HandleUserMessage ==
    /\ front_end = "web"
    /\ \E m \in AgentMethods : StartTurn(m)
    /\ has_tool_call' = FALSE
    /\ has_tool_output' = FALSE
    /\ think_was_converted' = FALSE
    /\ wire' = <<>>
    /\ UNCHANGED <<thinking_started, printed>>

\* Variant: once a send has failed, later events are taken without sending.
WebRelay_QuietAfterFailure ==
    /\ front_end = "web"
    /\ handler = "turn"
    /\ consumed < Len(out)
    /\ LET r == RelayEvent(AdapterFlags, out[consumed + 1]) IN
        /\ has_tool_call' = r.has_tool_call
        /\ has_tool_output' = r.has_tool_output
        /\ think_was_converted' = r.think_was_converted
        /\ IF \E i \in 1..Len(wire) : SendFailed(wire[i])
              THEN wire' = wire
              ELSE SendMessage(r.send, consumed + 1)
    /\ consumed' = consumed + 1
    /\ UNCHANGED <<services, front_end, handler, turns, failed_turns,
                   thinking_started, printed, pair, earlier, method, mcp_servers, pc,
                   pulled, chunks, out, history, current_text_buffer, flags>>

\* The loop body of _handle_user_message takes the event the generator has
\* yielded and runs up to its next wait: inside websocket.send when the
\* event is handed to _send_message, else (continue) it asks the generator
\* for the next event.
WebRelay ==
    /\ front_end = "web"
    /\ handler = "turn"
    /\ consumed < Len(out)
    /\ LET r == RelayEvent(AdapterFlags, out[consumed + 1]) IN
        /\ has_tool_call' = r.has_tool_call
        /\ has_tool_output' = r.has_tool_output
        /\ think_was_converted' = r.think_was_converted
        /\ SendMessage(r.send, consumed + 1)
    /\ consumed' = consumed + 1
    /\ UNCHANGED <<services, front_end, handler, turns, failed_turns,
                   thinking_started, printed, pair, earlier, method, mcp_servers, pc,
                   pulled, chunks, out, history, current_text_buffer, flags>>

\* websocket.send is over: it went through, or it raised and the except
\* clause of _send_message logged the failure.  After the send of a relayed
\* event the loop goes on; after the send of the error message
\* _handle_user_message returns to the message loop.
SendReturns ==
    /\ front_end = "web"
    /\ handler = "turn"
    /\ Sending
    /\ \E delivered \in BOOLEAN :
        /\ wire' = [wire EXCEPT ![Len(wire)].pending = FALSE,
                                ![Len(wire)].delivered = delivered]
        /\ handler' = IF wire[Len(wire)].event = 0 THEN "idle"
                      ELSE SendOutcome(delivered)
    /\ UNCHANGED <<services, front_end, turns, failed_turns, consumed, adapter,
                   thinking_started, printed, pair, earlier, method, mcp_servers, pc,
                   pulled, chunks, out, history, current_text_buffer, flags>>

\* The generator returned: _handle_user_message returns to the message loop.
WebTurnEnds ==
    /\ front_end = "web"
    /\ Awaiting
    /\ pc = "done"
    /\ handler' = "idle"
    /\ UNCHANGED <<services, front_end, turns, failed_turns, consumed, adapter, wire,
                   thinking_started, printed, pair, earlier, method, mcp_servers, pc,
                   pulled, chunks, out, history, current_text_buffer, flags>>

\* The generator raised: the except clause hands an error message to
\* _send_message and waits inside websocket.send.
WebTurnFails ==
    /\ front_end = "web"
    /\ Awaiting
    /\ pc = "raised"
    /\ SendMessage(<<ErrorMessage>>, 0)
    /\ failed_turns' = failed_turns + 1
    /\ UNCHANGED <<services, front_end, handler, turns, consumed, adapter,
                   thinking_started, printed, pair, earlier, method, mcp_servers, pc,
                   pulled, chunks, out, history, current_text_buffer, flags>>

\* `async for message in websocket` ends: the connection is cleaned up.
ConnectionClosed ==
    /\ front_end = "web"
    /\ handler = "idle"
    /\ handler' = "closed"
    /\ UNCHANGED <<services, front_end, turns, failed_turns, consumed, adapter, wire,
                   thinking_started, printed, pair, earlier, method, mcp_servers, pc,
                   pulled, chunks, out, history, current_text_buffer, flags>>

-----------------------------------------------------------------------------
\* CLI.run

Printed(kind, text) == [kind |-> kind, text |-> text]
ErrorLines == <<Printed("error", <<>>), Printed("retry", <<>>)>>

\* What one event prints, and whether a thinking region is open afterwards.
CliShow(started, event) ==
    IF event.type = "think"
        THEN IF event.content = <<>> THEN [started |-> started, lines |-> <<>>]
             ELSE [started |-> TRUE,
                   lines |-> (IF started THEN <<>>
                              ELSE <<Printed("think_label", <<>>)>>)
                             \o <<Printed("think", event.content)>>]
    ELSE IF event.type = "tool_call"
        THEN [started |-> FALSE,
              lines |-> (IF started THEN <<Printed("newline", <<>>)>> ELSE <<>>)
                        \o <<Printed("tool_call", event.tool_name)>>
                        \o (IF Truthy(event.arguments)
                                THEN <<Printed("arguments", <<>>)>> ELSE <<>>)
                        \o <<Printed("prefix", <<>>)>>]
    ELSE IF event.type = "tool_output"
        THEN [started |-> FALSE,
              lines |-> (IF started THEN <<Printed("newline", <<>>)>> ELSE <<>>)
                        \o (IF Truthy(event.output)
                                THEN <<Printed("tool_output", <<>>)>> ELSE <<>>)
                        \o <<Printed("prefix", <<>>)>>]
    ELSE IF event.type = "text_delta"
        THEN [started |-> FALSE,
              lines |-> (IF started THEN <<Printed("newline", <<>>)>> ELSE <<>>)
                        \o (IF event.content # <<>>
                                THEN <<Printed("text_delta", event.content)>>
                                ELSE <<>>)]
    ELSE IF event.type = "complete"
        THEN [started |-> FALSE, lines |-> <<>>]
    \* Any other type matches no branch: nothing is printed, nothing reset.
    ELSE [started |-> started, lines |-> <<>>]

\* A line of input that is neither empty, an exit word nor a help word.
CliInput ==
    /\ front_end = "cli"
    /\ StartTurn("run_with_stream_and_events")
    /\ thinking_started' = FALSE
    /\ printed' = <<Printed("prefix", <<>>)>>
    /\ UNCHANGED <<adapter, wire>>

\* The loop body of CLI.run takes the next event.
CliEvent ==
    /\ front_end = "cli"
    /\ handler = "turn"
    /\ consumed < Len(out)
    /\ thinking_started' = CliShow(thinking_started, out[consumed + 1]).started
    /\ printed' = printed \o CliShow(thinking_started, out[consumed + 1]).lines
    /\ consumed' = consumed + 1
    /\ UNCHANGED <<services, front_end, handler, turns, failed_turns, adapter, wire, pair, earlier,
                   method, mcp_servers, pc, pulled, chunks, out, history,
                   current_text_buffer, flags>>

\* The generator returned: a newline, then back to input().
CliTurnEnds ==
    /\ front_end = "cli"
    /\ Awaiting
    /\ pc = "done"
    /\ printed' = Append(printed, Printed("newline", <<>>))
    /\ handler' = "idle"
    /\ UNCHANGED <<services, front_end, turns, failed_turns, consumed, adapter, wire,
                   thinking_started, pair, earlier, method, mcp_servers, pc, pulled,
                   chunks, out, history, current_text_buffer, flags>>

\* Variant: the exception reaches the outer except of CLI.run, which ends the
\* program.
CliTurnFails_Exits ==
    /\ front_end = "cli"
    /\ Awaiting
    /\ pc = "raised"
    /\ printed' = printed \o ErrorLines
    /\ handler' = "closed"
    /\ failed_turns' = failed_turns + 1
    /\ UNCHANGED <<services, front_end, turns, consumed, adapter, wire, thinking_started,
                   pair, earlier, method, mcp_servers, pc, pulled, chunks, out, history,
                   current_text_buffer, flags>>

\* The generator raised: the inner except prints the error and the retry
\* hint, and the while loop goes back to input().
CliTurnFails ==
    /\ front_end = "cli"
    /\ Awaiting
    /\ pc = "raised"
    /\ printed' = printed \o ErrorLines
    /\ handler' = "idle"
    /\ failed_turns' = failed_turns + 1
    /\ UNCHANGED <<services, front_end, turns, consumed, adapter, wire, thinking_started,
                   pair, earlier, method, mcp_servers, pc, pulled, chunks, out, history,
                   current_text_buffer, flags>>

\* An exit word, EOF or Ctrl+C at the prompt.
CliExit ==
    /\ front_end = "cli"
    /\ handler = "idle"
    /\ handler' = "closed"
    /\ UNCHANGED <<services, front_end, turns, failed_turns, consumed, adapter, wire,
                   thinking_started, printed, pair, earlier, method, mcp_servers, pc,
                   pulled, chunks, out, history, current_text_buffer, flags>>

FrontNext ==
    \/ HandleUserMessage
    \/ CliInput
    \/ \E e \in FrontEvents : FrontTextDelta(e)
    \/ \E e \in FrontEvents : FrontToolCallItem(e)
    \/ \E e \in FrontEvents : FrontToolCallOutputItem(e)
    \/ FrontResumed
    \/ FrontEndOfStream
    \/ FrontSourceRaises
    \/ \E ev \in MockEvents : MockYields(ev)
    \/ MockReturns
    \/ Cancelled
    \/ WebRelay
    \/ SendReturns
    \/ WebTurnEnds
    \/ WebTurnFails
    \/ ConnectionClosed
    \/ CliEvent
    \/ CliTurnEnds
    \/ CliTurnFails
    \/ CliExit

SpecFront == FrontInit /\ [][FrontNext]_vars

-----------------------------------------------------------------------------
\* One call of run_with_stream_and_events as a value: the locals of the
\* generator and what it has yielded. Classify replays a raw event sequence
\* through a fresh call.

FreshCall ==
    [pc |-> "streaming", out |-> <<>>, current_text_buffer |-> <<>>,
     last_event_was_tool_call |-> FALSE, has_sent_think |-> FALSE,
     is_after_tool_output |-> FALSE, is_thinking_phase |-> FALSE,
     has_called_tool |-> FALSE, think_was_sent |-> FALSE]

\* The loop body for one raw event, up to the yield it reaches or, when it
\* reaches none, to its end.
OnEvent(c, servers, e) ==
    IF IsTextDelta(e)
        THEN IF ~DeltaIsTruthy(e.data.delta) THEN c
             ELSE LET route == TextRoute(c.is_after_tool_output, c.has_sent_think) IN
                  IF route = "text_delta"
                      THEN [c EXCEPT
                               !.current_text_buffer = @ \o e.data.delta,
                               !.out = Append(@, TextDeltaOut(e.data.delta)),
                               !.pc = "yield_text_delta"]
                  ELSE IF route = "think"
                      THEN [c EXCEPT
                               !.current_text_buffer = @ \o e.data.delta,
                               !.out = Append(@, ThinkEvent(e.data.delta)),
                               !.pc = "yield_think"]
                  ELSE [c EXCEPT
                           !.current_text_buffer = @ \o e.data.delta,
                           !.last_event_was_tool_call = FALSE]
    ELSE IF IsToolCallRaw(e)
        THEN [c EXCEPT
                 !.has_sent_think = TRUE,
                 !.is_thinking_phase = IF ~c.has_sent_think THEN FALSE ELSE @,
                 !.has_called_tool = TRUE,
                 !.current_text_buffer = <<>>,
                 !.last_event_was_tool_call = TRUE,
                 !.is_after_tool_output = FALSE,
                 !.out = Append(@, ToolCallEvent(servers, e.item))]
    ELSE IF IsToolOutputRaw(e)
        THEN [c EXCEPT
                 !.last_event_was_tool_call = FALSE,
                 !.is_after_tool_output = TRUE,
                 !.out = Append(@, ToolOutputEvent(e.item))]
    ELSE c

\* The statements after the yield the call is suspended at, run when the
\* consumer asks for the next event.
OnResumed(c) ==
    IF c.pc = "yield_flush"
        THEN [c EXCEPT !.out = Append(@, CompleteEvent), !.pc = "done"]
    ELSE IF c.pc \in YieldPoints
        THEN [c EXCEPT
                 !.is_thinking_phase = (c.pc = "yield_think" \/ @),
                 !.think_was_sent = (c.pc = "yield_think" \/ @),
                 !.last_event_was_tool_call = FALSE,
                 !.pc = "streaming"]
    ELSE c

\* The code after the loop, up to its first yield.
OnEndOfStream(c) ==
    IF ShouldFlushBuffer(c.current_text_buffer, c.is_after_tool_output,
                         c.think_was_sent, c.has_called_tool)
        THEN [c EXCEPT !.out = Append(@, TextDeltaOut(c.current_text_buffer)),
                       !.pc = "yield_flush"]
    ELSE [c EXCEPT !.out = Append(@, CompleteEvent), !.pc = "done"]

\* The except clause: nothing is yielded.
OnSourceRaises(c) == [c EXCEPT !.pc = "raised"]

\* A fresh call that has pulled the events and waits for the next one.
RECURSIVE Classify(_, _)
Classify(servers, events) ==
    IF events = <<>> THEN FreshCall
    ELSE OnResumed(OnEvent(Classify(servers,
                                    SubSeq(events, 1, Len(events) - 1)),
                           servers, events[Len(events)]))

\* A fresh call that has pulled the events and is at position at.
ReplayAt(at, servers, events) ==
    IF at = "streaming" THEN Classify(servers, events)
    ELSE IF at \in {"yield_think", "yield_text_delta"}
        THEN OnEvent(Classify(servers, SubSeq(events, 1, Len(events) - 1)),
                     servers, events[Len(events)])
    ELSE IF at = "yield_flush" THEN OnEndOfStream(Classify(servers, events))
    ELSE IF at = "done"
        THEN OnResumed(OnEndOfStream(Classify(servers, events)))
    ELSE OnSourceRaises(Classify(servers, events))

\* The call that the turn variables hold.
ThisCall ==
    [pc |-> pc, out |-> out, current_text_buffer |-> current_text_buffer,
     last_event_was_tool_call |-> last_event_was_tool_call,
     has_sent_think |-> has_sent_think,
     is_after_tool_output |-> is_after_tool_output,
     is_thinking_phase |-> is_thinking_phase,
     has_called_tool |-> has_called_tool, think_was_sent |-> think_was_sent]

\* The turn variables always hold the replay of what was pulled.
ThisCallIsReplay ==
    Events =>
        ThisCall = ReplayAt(pc, mcp_servers, pulled)

-----------------------------------------------------------------------------
\* Properties of the front ends

SomeSendFailed == \E i \in 1..Len(wire) : SendFailed(wire[i])
\* The messages handed to _send_message for events of the stream, in order.
RelayedWire == SelectSeq(wire, LAMBDA w : w.event # 0)
SentFor(k) == {i \in 1..Len(wire) : wire[i].event = k}
LastOf(seq) == seq[Len(seq)]

\* The error message of the except clause is inside websocket.send.
SendingError == Sending /\ LastOf(wire).event = 0

\* The step is the cancellation of the front end's task and nothing else.
TaskCancelled ==
    /\ handler' = "closed"
    /\ UNCHANGED <<consumed, wire, failed_turns, pc, out, pulled>>

\* C11: when the engine stream fails during a turn the front end reports the
\* error and is back waiting for input: the CLI prints the error and the
\* retry hint, the websocket handler hands an error message to
\* _send_message and, when that send is over (delivered or not), is back in
\* its message loop; neither ends, and a later input starts a turn as usual.
\* The one other way out of the send is the cancellation of the task.
C11_FailureReportedFrontEndGoesOn ==
    /\ [][(handler = "turn" /\ pc = "raised" /\ ~Sending) =>
             /\ failed_turns' = failed_turns + 1
             /\ front_end = "cli" =>
                   /\ handler' = "idle"
                   /\ Len(printed') = Len(printed) + 2
                   /\ SubSeq(printed', Len(printed) + 1, Len(printed')) = ErrorLines
             /\ front_end = "web" =>
                   /\ handler' = "turn"
                   /\ Len(wire') = Len(wire) + 1
                   /\ LastOf(wire').data.type = "error"
                   /\ SendingError']_vars
    /\ [][SendingError =>
             \/ TaskCancelled
             \/ /\ handler' = "idle"
                /\ ~Sending'
                /\ Len(wire') = Len(wire)
                /\ failed_turns' = failed_turns]_vars
    /\ []((handler = "turn" /\ pc = "raised" /\ Sending) => SendingError)

C11_Witness ==
    /\ turns = 2
    /\ failed_turns = 1
    /\ handler = "turn"
    /\ consumed >= 1

\* C12 as stated: once a send of the turn has failed, no further raw event
\* is pulled from the engine stream.
C12_NoPullAfterFailedSend ==
    [][(handler = "turn" /\ SomeSendFailed) => ~JustPulled]_vars

\* C12: a raw event is pulled only while the consumer waits for the next
\* presentation event, so a consumer that stops iterating causes no further
\* pulls; a failed send does not make the socket adapter stop: it leaves the
\* turn only when the stream has ended (or its task is cancelled), and raw
\* events keep being pulled after the failure.
C12_PullOnDemandFailedSendGoesOn ==
    [][/\ JustPulled => Awaiting
       /\ (handler = "turn" /\ handler' # "turn") =>
             \/ handler' = "idle" /\ pc \in {"done", "raised"}
             \/ TaskCancelled /\ (Sending \/ (Awaiting /\ pc = "streaming"))]_vars

C12_Witness ==
    /\ Events
    /\ front_end = "web"
    /\ handler = "turn"
    /\ \E i \in 1..Len(wire) :
        /\ SendFailed(wire[i])
        /\ wire[i].event # 0
        /\ outCause[wire[i].event] < Len(pulled)

\* What the adapter hands to _send_message for a sequence of events,
\* whatever became of the earlier sends.
RECURSIVE RelayAll(_)
RelayAll(events) ==
    IF events = <<>> THEN [AdapterFlags EXCEPT !.has_tool_call = FALSE,
                                               !.has_tool_output = FALSE,
                                               !.think_was_converted = FALSE]
    ELSE LET before == RelayAll(SubSeq(events, 1, Len(events) - 1))
             r == RelayEvent([before EXCEPT !.send = <<>>], events[Len(events)])
         IN [r EXCEPT !.send = before.send \o r.send]

\* C13: a failed send changes nothing but the fate of that message: the
\* adapter has attempted the send of every event it has taken, failed sends
\* or not, it takes every event up to the end of the turn, and the
\* classifier's state and output are those of the raw events alone.
C13_FailedSendDoesNotStopTurn ==
    front_end = "web" =>
        /\ [i \in 1..Len(RelayedWire) |-> RelayedWire[i].data] =
               RelayAll(SubSeq(out, 1, consumed)).send
        /\ (handler = "idle" /\ turns > 0) =>
               /\ pc \in {"done", "raised"}
               /\ consumed = Len(out)
        /\ ThisCallIsReplay

C13_Witness ==
    /\ Events
    /\ front_end = "web"
    /\ handler = "idle"
    /\ pc = "done"
    /\ consumed = Len(out)
    /\ \E i, j \in 1..Len(wire) :
        i < j /\ SendFailed(wire[i]) /\ wire[j].delivered

\* Text pulled before any tool event of the turn.
BeforeAnyTool(k) == \A n \in 1..outCause[k] : ~IsToolRaw(pulled[n])

\* C14: no wire message has type think: each think event taken by the socket
\* adapter is sent once, as a text_delta message with the same content,
\* while the event the classifier yields for text before any tool event has
\* type think.
C14_ThinkRemappedOnlyOnWire ==
    front_end = "web" =>
        /\ \A i \in 1..Len(wire) : wire[i].data.type # "think"
        /\ \A k \in 1..consumed :
               out[k].type = "think" =>
                   /\ Cardinality(SentFor(k)) = 1
                   /\ \A i \in SentFor(k) :
                          wire[i].data = [type |-> "text_delta",
                                          content |-> out[k].content]
        /\ Events =>
               \A k \in 1..Len(out) :
                   (outFrags[k] # <<>> /\ BeforeAnyTool(k)) => out[k].type = "think"

C14_Witness ==
    /\ Events
    /\ front_end = "web"
    /\ consumed >= 1
    /\ out[1] = ThinkEvent(<<"a">>)
    /\ wire # <<>>
    /\ wire[1].data = TextDeltaOut(<<"a">>)
    /\ wire[1].delivered

\* The wire message of an event that is relayed.
Remapped(event) ==
    IF event.type = "think"
        THEN [type |-> "text_delta", content |-> event.content]
        ELSE event

\* C15 as stated: every event taken by the socket adapter gives exactly one
\* wire message, in order, think being sent as text_delta.
C15_EveryEventRelayed ==
    front_end = "web" =>
        /\ Len(RelayedWire) = consumed
        /\ \A k \in 1..consumed :
               /\ RelayedWire[k].event = k
               /\ RelayedWire[k].data = Remapped(out[k])

\* A text_delta is withheld when a think event came before it in the turn
\* and no tool_call did, or when a tool_call came before it and no
\* tool_output did.
Withheld(k) ==
    /\ out[k].type = "text_delta"
    /\ \/ /\ \E j \in 1..(k - 1) : out[j].type = "think"
          /\ \A j \in 1..(k - 1) : out[j].type # "tool_call"
       \/ /\ \E j \in 1..(k - 1) : out[j].type = "tool_call"
          /\ \A j \in 1..(k - 1) : out[j].type # "tool_output"

\* C15: every event taken by the socket adapter gives at most one wire
\* message, in order; think is sent as text_delta, tool_call, tool_output and
\* complete are sent as they are, and a text_delta is sent as it is unless it
\* is withheld.
C15_RelayedUnlessWithheld ==
    front_end = "web" =>
        /\ \A i, j \in 1..Len(RelayedWire) :
               i < j => RelayedWire[i].event < RelayedWire[j].event
        /\ \A k \in 1..consumed :
               IF Withheld(k) THEN SentFor(k) = {}
               ELSE /\ Cardinality(SentFor(k)) = 1
                    /\ \A i \in SentFor(k) : wire[i].data = Remapped(out[k])

C15_Witness ==
    /\ Events
    /\ front_end = "web"
    /\ consumed = 3
    /\ out[1].type = "think"
    /\ out[2].type = "tool_output"
    /\ out[3].type = "text_delta"
    /\ SentFor(3) = {}
    /\ SentFor(2) # {}

-----------------------------------------------------------------------------
\* Two turns at once: two calls of _handle_user_message (two connections or
\* sessions) run as tasks of one event loop and interleave at every await,
\* each with the generator and the adapter flags of its own call frame.

PairMaxEvents == 2

Turns == {1, 2}

FreshTurn ==
    [call |-> FreshCall, pulled |-> <<>>, consumed |-> 0,
     adapter |-> [AdapterFlags EXCEPT !.has_tool_call = FALSE,
                                      !.has_tool_output = FALSE,
                                      !.think_was_converted = FALSE],
     wire |-> <<>>]

PairInit ==
    /\ method = "run_with_stream_and_events"
    /\ mcp_servers = <<FilesServer>>
    /\ pc = "streaming"
    /\ pulled = <<>>
    /\ chunks = <<>>
    /\ out = <<>>
    /\ outCause = <<>>
    /\ outFrags = <<>>
    /\ bufFrags = <<>>
    /\ current_text_buffer = <<>>
    /\ last_event_was_tool_call = FALSE
    /\ has_sent_think = FALSE
    /\ is_after_tool_output = FALSE
    /\ is_thinking_phase = FALSE
    /\ has_called_tool = FALSE
    /\ think_was_sent = FALSE
    /\ NoFrontEnd
    /\ pair = [t \in Turns |-> FreshTurn]
    /\ earlier = <<>>
    /\ NoServices

\* The locals of a call of run_with_stream_and_events belong to that call.
StoreCall(p, t, c) == [p EXCEPT ![t].call = c]

\* Variant: the adapter's flags are attributes of the handler, which every
\* connection writes.
StoreAdapter_Shared(p, t, a) == [u \in Turns |-> [p[u] EXCEPT !.adapter = a]]

\* The locals of a call of _handle_user_message belong to that call.
StoreAdapter(p, t, a) == [p EXCEPT ![t].adapter = a]

PairAwaiting(t) ==
    /\ pair[t].call.pc = "streaming"
    /\ pair[t].consumed = Len(pair[t].call.out)

PairUnchanged ==
    UNCHANGED <<services, front, earlier, method, mcp_servers, pc, pulled, chunks, out, history,
                current_text_buffer, flags>>

\* Turn t's generator pulls a raw event.
PairEvent(t, e) ==
    /\ PairAwaiting(t)
    /\ Len(pair[t].pulled) < PairMaxEvents
    /\ pair' = [StoreCall(pair, t, OnEvent(pair[t].call, mcp_servers, e))
                   EXCEPT ![t].pulled = Append(@, e)]
    /\ PairUnchanged

\* Turn t's handler asks for the next event while its generator is
\* suspended at a yield.
PairResumed(t) ==
    /\ pair[t].call.pc \in YieldPoints
    /\ pair[t].consumed = Len(pair[t].call.out)
    /\ pair' = StoreCall(pair, t, OnResumed(pair[t].call))
    /\ PairUnchanged

\* Turn t's stream is exhausted.
PairEndOfStream(t) ==
    /\ PairAwaiting(t)
    /\ pair' = StoreCall(pair, t, OnEndOfStream(pair[t].call))
    /\ PairUnchanged

\* Turn t's handler takes the next event of its generator.
PairRelay(t) ==
    /\ pair[t].consumed < Len(pair[t].call.out)
    /\ LET r == RelayEvent(pair[t].adapter, pair[t].call.out[pair[t].consumed + 1]) IN
       pair' = [StoreAdapter(pair, t, [r EXCEPT !.send = <<>>])
                   EXCEPT ![t].consumed = @ + 1,
                          ![t].wire = @ \o r.send]
    /\ PairUnchanged

PairNext ==
    \/ \E t \in Turns, e \in FrontEvents : PairEvent(t, e)
    \/ \E t \in Turns : PairResumed(t)
    \/ \E t \in Turns : PairEndOfStream(t)
    \/ \E t \in Turns : PairRelay(t)

SpecPair == PairInit /\ [][PairNext]_vars

\* What turn t yields and sends when it runs alone on its raw events.
AloneCall(t) == ReplayAt(pair[t].call.pc, mcp_servers, pair[t].pulled)
AloneWire(t) == RelayAll(SubSeq(AloneCall(t).out, 1, pair[t].consumed)).send

\* C16: however two concurrent turns interleave, each turn's presentation
\* events and wire messages are those of the same turn running alone on the
\* same raw events.
C16_ConcurrentTurnsIndependent ==
    \A t \in Turns :
        /\ pair[t].call.out = AloneCall(t).out
        /\ pair[t].wire = AloneWire(t)

C16_Witness ==
    /\ pair[1].call.pc = "streaming"
    /\ pair[2].call.pc = "streaming"
    /\ Len(pair[1].pulled) = 1
    /\ Len(pair[2].pulled) = 2
    /\ pair[1].adapter.think_was_converted
    /\ pair[2].adapter.has_tool_output
    /\ ~pair[2].adapter.think_was_converted
    /\ Len(pair[2].wire) = 2
    /\ pair[2].wire[2].type = "text_delta"

-----------------------------------------------------------------------------
\* Replay: the agent is called, and then called again.  Both calls run the
\* generator on the one ReactAgent object, with the servers it was
\* constructed with; the first is left where it stands when the second
\* starts (returned, raised, or dropped by its consumer at a yield or while
\* it waits for a raw event).

ReplayMaxEvents == 3

ReplayEvents ==
    {TextDeltaEvent(<<"a">>), TextDeltaEvent(<<>>), RunItemEvent(CallRead),
     RunItemEvent(OutputOnItem)}

ReplayInit ==
    /\ method = "run_with_stream_and_events"
    /\ mcp_servers \in {<<>>, <<FilesServer>>}
    /\ pc = "streaming"
    /\ pulled = <<>>
    /\ chunks = <<>>
    /\ out = <<>>
    /\ outCause = <<>>
    /\ outFrags = <<>>
    /\ bufFrags = <<>>
    /\ current_text_buffer = <<>>
    /\ last_event_was_tool_call = FALSE
    /\ has_sent_think = FALSE
    /\ is_after_tool_output = FALSE
    /\ is_thinking_phase = FALSE
    /\ has_called_tool = FALSE
    /\ think_was_sent = FALSE
    /\ NoFrontEnd
    /\ NoPair
    /\ NoServices

\* What a call leaves behind for the record.
CallLeft == [pulled |-> pulled, pc |-> pc, out |-> out]

\* Variant: the phase flags are attributes of the agent and are not set anew
\* by a call.
CallAgain_KeepsFlags ==
    /\ earlier = <<>>
    /\ earlier' = <<CallLeft>>
    /\ pc' = "streaming"
    /\ pulled' = <<>>
    /\ out' = <<>>
    /\ outCause' = <<>>
    /\ outFrags' = <<>>
    /\ bufFrags' = <<>>
    /\ current_text_buffer' = <<>>
    /\ UNCHANGED <<services, front, pair, method, mcp_servers, chunks, flags>>

\* run_with_stream_and_events is called again on the agent: a new generator
\* whose buffer and flags are set at its start, a new stream with nothing
\* pulled; self.mcp_servers is the list the agent was constructed with.
CallAgain ==
    /\ earlier = <<>>
    /\ earlier' = <<CallLeft>>
    /\ pc' = "streaming"
    /\ pulled' = <<>>
    /\ out' = <<>>
    /\ outCause' = <<>>
    /\ outFrags' = <<>>
    /\ bufFrags' = <<>>
    /\ current_text_buffer' = <<>>
    /\ last_event_was_tool_call' = FALSE
    /\ has_sent_think' = FALSE
    /\ is_after_tool_output' = FALSE
    /\ is_thinking_phase' = FALSE
    /\ has_called_tool' = FALSE
    /\ think_was_sent' = FALSE
    /\ UNCHANGED <<services, front, pair, method, mcp_servers, chunks>>

ReplayNext ==
    \/ \E e \in ReplayEvents : Len(pulled) < ReplayMaxEvents /\ TextDelta(e)
    \/ \E e \in ReplayEvents : Len(pulled) < ReplayMaxEvents /\ ToolCallItem(e)
    \/ \E e \in ReplayEvents :
           Len(pulled) < ReplayMaxEvents /\ ToolCallOutputItem(e)
    \/ Resumed
    \/ EndOfStream
    \/ SourceRaises
    \/ CallAgain

SpecReplay == ReplayInit /\ [][ReplayNext]_vars

\* C17: a fresh call of run_with_stream_and_events on an agent that has
\* been called before, with the same connected providers, that has pulled
\* the raw event sequence the earlier call had pulled and stands where the
\* earlier call stood, has yielded the same sequence of presentation
\* events as the earlier call.
C17_ReplayYieldsSameEvents ==
    \A i \in 1..Len(earlier) :
        (pulled = earlier[i].pulled /\ pc = earlier[i].pc)
            => out = earlier[i].out

C17_Witness ==
    /\ Len(earlier) = 1
    /\ earlier[1].pc = "done"
    /\ pc = "done"
    /\ pulled = earlier[1].pulled
    /\ pulled = <<TextDeltaEvent(<<"a">>), RunItemEvent(CallRead),
                  RunItemEvent(OutputOnItem)>>
    /\ out = earlier[1].out
    /\ Len(out) = 4

-----------------------------------------------------------------------------
\* Where a text fragment goes, by the tool events pulled before it

\* The latest tool event among the raw events: "none", "start" or "result".
LatestTool(events) ==
    LET tools == {i \in 1..Len(events) : IsToolRaw(events[i])} IN
    IF tools = {} THEN "none"
    ELSE LET last == CHOOSE i \in tools : \A j \in tools : j <= i IN
         IF IsToolCallRaw(events[last]) THEN "start" ELSE "result"
NoToolStart(events) == \A i \in 1..Len(events) : ~IsToolCallRaw(events[i])
PullsText == Events /\ JustPulled /\ IsTextDelta(pulled'[Len(pulled')])
PullsNonEmptyText == Events /\ JustPulled /\ IsNonEmptyTextDelta(pulled'[Len(pulled')])
PulledDelta == pulled'[Len(pulled')].data.delta

\* C28 as stated: a non-empty text fragment pulled before the first tool
\* call of the turn is yielded at once as one think event carrying it.
C28_TextBeforeFirstCallIsThink ==
    [][(PullsNonEmptyText /\ NoToolStart(pulled))
       => out' = Append(out, ThinkEvent(PulledDelta))]_vars

\* C28: a non-empty text fragment pulled before any tool event of the turn
\* (call or output) is yielded at once, before the next raw event is pulled,
\* as one think event carrying exactly that fragment.
C28_TextBeforeAnyToolIsThink ==
    [][(PullsNonEmptyText /\ LatestTool(pulled) = "none")
       => out' = Append(out, ThinkEvent(PulledDelta))]_vars

C28_Witness ==
    /\ Events
    /\ Len(pulled) >= 3
    /\ pulled[1] = TextDeltaEvent(<<"a">>)
    /\ IsUnrecognised(pulled[2])
    /\ pulled[3] = TextDeltaEvent(<<"b">>)
    /\ Len(out) >= 2
    /\ out[1] = ThinkEvent(<<"a">>)
    /\ out[2] = ThinkEvent(<<"b">>)
    /\ outCause[2] = 3

\* C29: a text fragment pulled while the latest tool event of the turn is a
\* tool call (the first, or one that follows an earlier output) yields
\* nothing when it is pulled; it is only appended to current_text_buffer.
C29_TextAfterCallOnlyBuffered ==
    [][(PullsText /\ LatestTool(pulled) = "start")
       => /\ out' = out
          /\ current_text_buffer' = current_text_buffer \o PulledDelta]_vars

C29_Witness ==
    /\ Events
    /\ Len(pulled) = 4
    /\ IsToolCallRaw(pulled[1])
    /\ IsToolOutputRaw(pulled[2])
    /\ IsToolCallRaw(pulled[3])
    /\ pulled[4] = TextDeltaEvent(<<"a">>)
    /\ Len(out) = 3
    /\ current_text_buffer = <<"a">>

\* C30: a non-empty text fragment pulled while the latest tool event of the
\* turn is a tool output is yielded at once, before the next raw event is
\* pulled, as one text_delta event carrying exactly that fragment.
C30_TextAfterOutputIsAnswer ==
    [][(PullsNonEmptyText /\ LatestTool(pulled) = "result")
       => out' = Append(out, TextDeltaOut(PulledDelta))]_vars

C30_Witness ==
    /\ Events
    /\ Len(pulled) = 4
    /\ IsToolCallRaw(pulled[1])
    /\ IsToolOutputRaw(pulled[2])
    /\ pulled[3] = TextDeltaEvent(<<"a">>)
    /\ pulled[4] = TextDeltaEvent(<<"b">>)
    /\ Len(out) = 4
    /\ out[3] = TextDeltaOut(<<"a">>)
    /\ out[4] = TextDeltaOut(<<"b">>)

-----------------------------------------------------------------------------
\* SessionManager (session_manager.py): the static methods create_session,
\* list_sessions and delete_session, as functions of their arguments and of
\* what the storage back ends do.

MaxSessions == 2
SessionNames == <<"s1", "s2", "s3", "s4">>
SessionIds ==
    {SessionNames[i] : i \in 1..(IF MaxSessions < 4 THEN MaxSessions ELSE 4)}

REDIS_URL == <<"r", "e", "d", "i", "s", ":", "/", "/", "h">>
RedisUrls == {PyNone, PyStr(<<>>), PyStr(REDIS_URL)}
StorageTypes == {"sqlite", "redis", "invalid"}

\* The exception classes that occur, each with its base classes:
\* SessionError derives from Exception alone.
ExceptionBases(class) ==
    IF class = "SessionError" THEN {"SessionError", "Exception"}
    ELSE IF class = "ValueError" THEN {"ValueError", "Exception"}
    ELSE IF class = "ImportError" THEN {"ImportError", "Exception"}
    ELSE IF class = "ConnectionError"
        THEN {"ConnectionError", "OSError", "Exception"}
    ELSE IF class = "OSError" THEN {"OSError", "Exception"}
    ELSE {"Exception"}

\* isinstance(e, class), which is what an except clause and pytest.raises test.
IsInstance(e, class) == class \in ExceptionBases(e.class)

\* How a call ends: a returned value, or an exception of a class with the
\* class of its __cause__ ("" when it has none).
Returned(value) ==
    [outcome |-> "returned", value |-> value, class |-> "", cause |-> ""]
Raised(class, cause) ==
    [outcome |-> "raised", value |-> PyNone, class |-> class, cause |-> cause]

SQLiteSession(session_id) == [kind |-> "SQLiteSession", session_id |-> session_id]
RedisSession(session_id) == [kind |-> "RedisSession", session_id |-> session_id]

\* What the back ends do during one call: the import of RedisSession,
\* RedisSession.from_url, the SQLiteSession constructor and
\* session.clear_session either work ("ok") or raise the class named.
CreateEnvs ==
    [redis_import : {"ok", "ImportError"},
     from_url : {"ok", "ConnectionError"},
     sqlite : {"ok", "OSError"},
     clear : {"ok"}]
DeleteEnvs ==
    [redis_import : {"ok", "ImportError"},
     from_url : {"ok", "ConnectionError"},
     sqlite : {"ok", "OSError"},
     clear : {"ok", "OSError"}]

CreateSqliteSession(session_id, env) ==
    IF env.sqlite = "ok" THEN Returned(SQLiteSession(session_id))
    ELSE Raised(env.sqlite, "")

\* Variant: a Redis failure is raised to the caller.
CreateRedisSession_NoFallback(session_id, redis_url, env) ==
    IF ~Truthy(redis_url) THEN Raised("ValueError", "")
    ELSE IF env.redis_import # "ok" THEN Raised(env.redis_import, "")
    ELSE IF env.from_url # "ok" THEN Raised(env.from_url, "")
    ELSE Returned(RedisSession(session_id))

\* _create_redis_session: the URL check is outside the try; a failing import
\* or from_url is caught and answered by _create_sqlite_session.
CreateRedisSession(session_id, redis_url, env) ==
    IF ~Truthy(redis_url) THEN Raised("ValueError", "")
    ELSE IF env.redis_import # "ok" THEN CreateSqliteSession(session_id, env)
    ELSE IF env.from_url # "ok" THEN CreateSqliteSession(session_id, env)
    ELSE Returned(RedisSession(session_id))

\* except Exception as e: raise SessionError(...) from e
WrapInSessionError(r) ==
    IF r.outcome = "raised" THEN Raised("SessionError", r.class) ELSE r

CreateSession(session_id, storage_type, redis_url, env) ==
    WrapInSessionError(
        IF storage_type = "sqlite" THEN CreateSqliteSession(session_id, env)
        ELSE IF storage_type = "redis"
            THEN CreateRedisSession(session_id, redis_url, env)
        ELSE Raised("ValueError", ""))

\* What listing finds: the SQLite file is missing, unreadable or holds rows
\* (session ids, "" for an empty one); Redis is down or holds the ids listed.
StoredRows == {<<>>, <<"s1">>, <<"", "s1">>, <<"s2", "s1">>}
ListEnvs ==
    [sqlite_db : {"missing", "broken", "ok"}, rows : StoredRows,
     redis : {"down", "ok"}]

\* _list_sqlite_sessions: [] without a file or on any failure, else the
\* non-empty ids of the rows.
ListSqliteSessions(env) ==
    IF env.sqlite_db = "ok" THEN SelectSeq(env.rows, LAMBDA id : id # "")
    ELSE <<>>

\* _list_redis_sessions: [] without a URL or on any failure, else the ids
\* of the keys in the order the set of them is iterated (env.rows).
ListRedisSessions(redis_url, env) ==
    IF ~Truthy(redis_url) THEN <<>>
    ELSE IF env.redis = "ok" THEN env.rows
    ELSE <<>>

ListSessions(storage_type, redis_url, env) ==
    WrapInSessionError(
        IF storage_type = "sqlite" THEN Returned(ListSqliteSessions(env))
        ELSE IF storage_type = "redis"
            THEN Returned(ListRedisSessions(redis_url, env))
        ELSE Raised("ValueError", ""))

\* delete_session: a temporary session is created and cleared; whatever is
\* raised on the way leaves as SessionError.
DeleteSession(session_id, storage_type, redis_url, env) ==
    LET created == CreateSession(session_id, storage_type, redis_url, env)
    IN WrapInSessionError(
           IF created.outcome = "raised" THEN created
           ELSE IF env.clear # "ok" THEN Raised(env.clear, "")
           ELSE Returned(PyNone))

\* The calls: sm_call is the last call made and what the back ends did
\* during it, sm_result how it ended.
NoCall == [op |-> "none"]
\* No turn of the agent takes part.
NoTurn ==
    /\ method = "run_with_stream_and_events"
    /\ mcp_servers = <<>>
    /\ pc = "streaming"
    /\ pulled = <<>>
    /\ chunks = <<>>
    /\ out = <<>>
    /\ outCause = <<>>
    /\ outFrags = <<>>
    /\ bufFrags = <<>>
    /\ current_text_buffer = <<>>
    /\ last_event_was_tool_call = FALSE
    /\ has_sent_think = FALSE
    /\ is_after_tool_output = FALSE
    /\ is_thinking_phase = FALSE
    /\ has_called_tool = FALSE
    /\ think_was_sent = FALSE

SessionsInit ==
    /\ NoTurn
    /\ NoFrontEnd
    /\ NoPair
    /\ sm_call = NoCall
    /\ sm_result = Returned(PyNone)
    /\ NoServer
    /\ config_servers = <<>>
    /\ load_index = 0
    /\ loaded_servers = <<>>
    /\ loader_pc = "returned"

SessionsUnchanged ==
    UNCHANGED <<loader, web_server, front, pair, earlier, method, mcp_servers, pc,
                pulled, chunks, out, history, current_text_buffer, flags>>

CallCreateSession ==
    /\ \E session_id \in SessionIds, storage_type \in StorageTypes,
          redis_url \in RedisUrls, env \in CreateEnvs :
        /\ sm_call' = [op |-> "create_session", session_id |-> session_id,
                       storage_type |-> storage_type, redis_url |-> redis_url,
                       env |-> env]
        /\ sm_result' = CreateSession(session_id, storage_type, redis_url, env)
    /\ SessionsUnchanged

CallListSessions ==
    /\ \E storage_type \in StorageTypes, redis_url \in RedisUrls,
          env \in ListEnvs :
        /\ sm_call' = [op |-> "list_sessions", storage_type |-> storage_type,
                       redis_url |-> redis_url, env |-> env]
        /\ sm_result' = ListSessions(storage_type, redis_url, env)
    /\ SessionsUnchanged

CallDeleteSession ==
    /\ \E session_id \in SessionIds, storage_type \in StorageTypes,
          redis_url \in RedisUrls, env \in DeleteEnvs :
        /\ sm_call' = [op |-> "delete_session", session_id |-> session_id,
                       storage_type |-> storage_type, redis_url |-> redis_url,
                       env |-> env]
        /\ sm_result' = DeleteSession(session_id, storage_type, redis_url, env)
    /\ SessionsUnchanged

SessionsNext ==
    \/ CallCreateSession
    \/ CallListSessions
    \/ CallDeleteSession

SpecSessions == SessionsInit /\ [][SessionsNext]_vars

\* C25: create_session with storage type redis and a Redis URL, when the
\* Redis session cannot be created (the import or from_url fails) and SQLite
\* works, returns a SQLite session for the same session id; whenever it
\* raises, the cause is the SQLite constructor and never Redis.
C25_RedisFallsBackToSqlite ==
    (/\ sm_call.op = "create_session"
     /\ sm_call.storage_type = "redis"
     /\ Truthy(sm_call.redis_url)) =>
        /\ (/\ (sm_call.env.redis_import # "ok" \/ sm_call.env.from_url # "ok")
            /\ sm_call.env.sqlite = "ok") =>
               sm_result = Returned(SQLiteSession(sm_call.session_id))
        /\ sm_result.outcome = "raised" =>
               /\ sm_call.env.sqlite # "ok"
               /\ sm_result.cause = sm_call.env.sqlite

C25_Witness ==
    /\ sm_call.op = "create_session"
    /\ sm_call.storage_type = "redis"
    /\ Truthy(sm_call.redis_url)
    /\ sm_call.env.redis_import = "ok"
    /\ sm_call.env.from_url = "ConnectionError"
    /\ sm_result = Returned(SQLiteSession(sm_call.session_id))

\* C26: list_sessions called with a storage type other than sqlite or redis
\* raises ValueError.
C26_InvalidTypeRaisesValueError ==
    (/\ sm_call.op = "list_sessions"
     /\ sm_call.storage_type \notin {"sqlite", "redis"}) =>
        /\ sm_result.outcome = "raised"
        /\ IsInstance(sm_result, "ValueError")

-----------------------------------------------------------------------------
\* MCPManager.load_mcp_servers (mcp_manager.py): the loop over config.servers.

MaxServers == 3

\* A server configuration, with what its connect() does when awaited:
\* returns, raises an Exception, runs into the wait_for timeout or is
\* cancelled. target is the command (stdio) or the url (sse, streamablehttp).
ServerConfig(name, protocol, target, connect) ==
    [name |-> name, protocol |-> protocol, target |-> target,
     connect |-> connect]
ConnectOutcomes == {"ok", "raises", "timeout", "cancelled"}
ServerConfigs ==
    {ServerConfig("files", "stdio", PyStr(<<"n", "p", "x">>), c) :
         c \in ConnectOutcomes}
    \cup {ServerConfig("weather", "sse", PyStr(<<"u">>), c) :
              c \in {"ok", "raises"}}
    \cup {ServerConfig("search", "streamablehttp", PyStr(<<"u">>), c) :
              c \in {"ok", "timeout"}}
    \cup {ServerConfig("nocommand", "stdio", PyNone, "ok"),
          ServerConfig("nourl", "sse", PyStr(<<>>), "ok"),
          ServerConfig("other", "websocket", PyStr(<<"u">>), "ok")}

RECURSIVE SeqsUpTo(_, _)
SeqsUpTo(S, n) ==
    IF n = 0 THEN {<<>>}
    ELSE LET shorter == SeqsUpTo(S, n - 1)
         IN shorter \cup {Append(s, x) : s \in {t \in shorter : Len(t) = n - 1},
                                         x \in S}
ConfigLists == SeqsUpTo(ServerConfigs, MaxServers)

\* _create_server with create_stdio_server, create_sse_server and
\* create_streamablehttp_server: the server instance for the configuration
\* at position i, or MCPError for a missing command or url or an unknown
\* protocol.
ServerClass(protocol) ==
    IF protocol = "stdio" THEN "MCPServerStdio"
    ELSE IF protocol = "sse" THEN "MCPServerSse"
    ELSE "MCPServerStreamableHttp"
CreateServer(i, server_config) ==
    IF server_config.protocol \in {"stdio", "sse", "streamablehttp"}
        THEN IF Truthy(server_config.target)
                 THEN Returned([position |-> i, name |-> server_config.name,
                                class |-> ServerClass(server_config.protocol)])
                 ELSE Raised("MCPError", "")
    ELSE Raised("MCPError", "")

\* Variant: a server that fails ends the loading.
LoadOne_FailureEndsLoad(i, loaded_before, server_config) ==
    LET server == CreateServer(i, server_config)
    IN IF server.outcome = "returned" /\ server_config.connect = "ok"
           THEN [loaded |-> Append(loaded_before, server.value),
                 pc |-> "loading"]
       ELSE [loaded |-> loaded_before, pc |-> "returned"]

\* One pass of the for loop, for the configuration at position i: the list
\* after it and where the loop is. Only a connect() that returns reaches
\* servers.append; every except clause ends in continue.
LoadOne(i, loaded_before, server_config) ==
    LET server == CreateServer(i, server_config)
    IN IF server.outcome = "raised"
           THEN [loaded |-> loaded_before, pc |-> "loading"]
       ELSE IF server_config.connect = "ok"
           THEN [loaded |-> Append(loaded_before, server.value),
                 pc |-> "loading"]
       ELSE IF server_config.connect = "timeout"
           THEN [loaded |-> loaded_before, pc |-> "loading"]
       ELSE IF server_config.connect = "cancelled"
           THEN [loaded |-> loaded_before, pc |-> "loading"]
       ELSE [loaded |-> loaded_before, pc |-> "loading"]

LoaderInit ==
    /\ NoTurn
    /\ NoFrontEnd
    /\ NoPair
    /\ sm_call = NoCall
    /\ sm_result = Returned(PyNone)
    /\ NoServer
    /\ config_servers \in ConfigLists
    /\ load_index = 0
    /\ loaded_servers = <<>>
    /\ loader_pc = "loading"

LoaderUnchanged ==
    UNCHANGED <<manager, web_server, front, pair, earlier, method, mcp_servers, pc,
                pulled, chunks, out, history, current_text_buffer, flags>>

\* The loop takes the next configuration.
LoadServer ==
    /\ loader_pc = "loading"
    /\ load_index < Len(config_servers)
    /\ LET r == LoadOne(load_index + 1, loaded_servers,
                        config_servers[load_index + 1])
       IN /\ loaded_servers' = r.loaded
          /\ loader_pc' = r.pc
    /\ load_index' = load_index + 1
    /\ UNCHANGED config_servers
    /\ LoaderUnchanged

\* The loop is through: return servers.
LoadReturns ==
    /\ loader_pc = "loading"
    /\ load_index = Len(config_servers)
    /\ loader_pc' = "returned"
    /\ UNCHANGED <<config_servers, load_index, loaded_servers>>
    /\ LoaderUnchanged

LoaderNext ==
    \/ LoadServer
    \/ LoadReturns

SpecLoader == LoaderInit /\ [][LoaderNext]_vars

\* The configuration connects: its server can be created and connect()
\* returns.
Connects(server_config) ==
    /\ server_config.protocol \in {"stdio", "sse", "streamablehttp"}
    /\ Truthy(server_config.target)
    /\ server_config.connect = "ok"

\* The positions among the first n configurations that connect, ascending.
RECURSIVE ConnectingPositions(_, _)
ConnectingPositions(configs, n) ==
    IF n = 0 THEN <<>>
    ELSE LET before == ConnectingPositions(configs, n - 1)
         IN IF Connects(configs[n]) THEN Append(before, n) ELSE before

\* C27: the configurations are taken one at a time in order; after the first
\* load_index of them the list holds exactly the servers of those that
\* connect, in configuration order, each of the class and name of its
\* configuration; a server that cannot be created, whose connect raises,
\* times out or is cancelled is not in it, and the call returns only after
\* the last configuration was tried.
C27_LoadsConnectingServersInOrder ==
    LET positions == ConnectingPositions(config_servers, load_index)
    IN /\ load_index \in 0..Len(config_servers)
       /\ Len(loaded_servers) = Len(positions)
       /\ \A k \in 1..Len(positions) :
           /\ loaded_servers[k].position = positions[k]
           /\ loaded_servers[k].name = config_servers[positions[k]].name
           /\ loaded_servers[k].class =
                  ServerClass(config_servers[positions[k]].protocol)
       /\ loader_pc = "returned" => load_index = Len(config_servers)

C27_Witness ==
    /\ loader_pc = "returned"
    /\ Len(config_servers) = 3
    /\ config_servers[1].connect = "raises"
    /\ ~Truthy(config_servers[2].target)
    /\ Connects(config_servers[3])
    /\ Len(loaded_servers) = 1
    /\ loaded_servers[1].position = 3

-----------------------------------------------------------------------------
\* WebSocketHandler (web_api.py) with several connections: handle_connection,
\* _handle_message and the session requests, over the maps session_agents and
\* connection_sessions that all connections of a handler share.

MaxConnections == 2
MaxRequests == 3
Connections == 1..MaxConnections

\* A dict is the set of its <<key, value>> pairs.
DictHas(d, k) == \E p \in d : p[1] = k
DictGet(d, k) == (CHOOSE p \in d : p[1] = k)[2]
DictSet(d, k, v) == {p \in d : p[1] # k} \cup {<<k, v>>}
DictDel(d, k) == {p \in d : p[1] # k}

\* The handler is built with the defaults of __init__.
HandlerStorageType == "sqlite"
HandlerRedisUrl == PyNone
\* What the back ends do during a request: with SQLite storage only the
\* SQLiteSession constructor, clear_session and the SQLite file matter.
ServerCreateEnvs ==
    {e \in CreateEnvs : e.redis_import = "ok" /\ e.from_url = "ok"}
ServerDeleteEnvs ==
    {e \in DeleteEnvs : e.redis_import = "ok" /\ e.from_url = "ok"}
ServerListEnvs ==
    {e \in ListEnvs : e.redis = "down" /\ e.rows = <<"", "s1">>}
FactoryOutcomes == {"ok", "raises"}

\* session id of a create_session request that names none:
\* "web_session_" + uuid4().hex[:8].  Every call of uuid4 gives an id not
\* given before (two draws of 32 bits that coincide are left out); the id
\* of the n-th call is written web_session_<n - 1>.  Every request read
\* generates at most one id.
GeneratedId(n) == "web_session_" \o ToString(n)
GeneratedIds == {GeneratedId(n) : n \in 0..(MaxRequests - 1)}

\* Client messages: text that is not JSON, JSON that is no object, and
\* objects with type, session_id and content ("" for a missing or empty one).
ClientMessage(type, session_id, content) ==
    [json |-> "object", type |-> type, session_id |-> session_id,
     content |-> content]
NotJson == [json |-> "invalid", type |-> "", session_id |-> "", content |-> ""]
JsonArray == [json |-> "array", type |-> "", session_id |-> "", content |-> ""]
KnownTypes ==
    {"message", "create_session", "switch_session", "delete_session",
     "list_sessions", "load_history"}
OptionalIds == SessionIds \cup {""}
ClientMessages ==
    {NotJson, JsonArray, ClientMessage("", "", ""),
     ClientMessage("rename_session", "s1", ""),
     ClientMessage("message", "s1", ""),
     ClientMessage("list_sessions", "", ""),
     ClientMessage("load_history", "", ""),
     ClientMessage("load_history", "s1", "")}
    \cup {ClientMessage("message", s, "hi") : s \in OptionalIds}
    \cup {ClientMessage(type, s, "") :
              type \in {"create_session", "switch_session", "delete_session"},
              s \in OptionalIds}

\* Messages the server sends.
ConnectedMessage == [type |-> "connected"]
SessionMessage(type, session_id) == [type |-> type, session_id |-> session_id]
SessionsListMessage(sessions) == [type |-> "sessions_list", sessions |-> sessions]

\* _handle_message: where a message goes. json.loads raises JSONDecodeError
\* on text that is not JSON; data.get raises on JSON that is no object, which
\* the except Exception clause answers; then the if / elif chain on type.
Route(message) ==
    IF message.json = "invalid" THEN "json_error"
    ELSE IF message.json # "object" THEN "exception"
    ELSE IF message.type \in KnownTypes THEN message.type
    ELSE "unknown"

\* agent_history, for every session id: the values _get_or_create_agent
\* has returned for it since it was last deleted (0 for None), the factory
\* calls made for it since then, every agent ever returned for it, the
\* agents that were in the cache for it when a deletion went through, and
\* the number of deletions that went through.
SessionKeys == SessionIds \cup GeneratedIds
NoHistory ==
    [s \in SessionKeys |->
        [returned |-> {}, factory_calls |-> 0, ever |-> {}, deleted |-> {},
         deletions |-> 0, callers |-> {}]]

\* The history after _get_or_create_agent(session_id) ended as r.
AfterCall(h, session_id, r) ==
    [h EXCEPT ![session_id] =
        [@ EXCEPT !.returned = @ \cup {r.agent},
                  !.factory_calls = @ + (IF r.factory_called THEN 1 ELSE 0),
                  !.ever = @ \cup ({r.agent} \ {0})]]

\* The same, with the connection whose handler made the call.
AfterCallBy(h, c, session_id, r) ==
    [AfterCall(h, session_id, r) EXCEPT ![session_id].callers = @ \cup {c}]

\* The history after the deletion of session_id went through.
AfterDeletion(h, cache, session_id) ==
    [h EXCEPT ![session_id] =
        [@ EXCEPT !.returned = {}, !.factory_calls = 0, !.callers = {},
                  !.deletions = @ + 1,
                  !.deleted = @ \cup {p[2] : p \in {q \in cache :
                                                      q[1] = session_id}}]]

\* Variant: every call builds a new agent.
GetOrCreateAgent_NoCache(cache, made, session_id, env, factory) ==
    IF CreateSession(session_id, HandlerStorageType, HandlerRedisUrl,
                     env).outcome = "raised"
        THEN [agent |-> 0, cache |-> cache, made |-> made,
              factory_called |-> FALSE]
    ELSE IF factory # "ok"
        THEN [agent |-> 0, cache |-> cache, made |-> made,
              factory_called |-> TRUE]
    ELSE [agent |-> made + 1, cache |-> DictSet(cache, session_id, made + 1),
          made |-> made + 1, factory_called |-> TRUE]

\* Variant: a cache hit hands out a new agent and leaves the cached one.
GetOrCreateAgent_CopyOnHit(cache, made, session_id, env, factory) ==
    IF DictHas(cache, session_id)
        THEN [agent |-> made + 1, cache |-> cache, made |-> made + 1,
              factory_called |-> FALSE]
    ELSE IF CreateSession(session_id, HandlerStorageType, HandlerRedisUrl,
                          env).outcome = "raised"
        THEN [agent |-> 0, cache |-> cache, made |-> made,
              factory_called |-> FALSE]
    ELSE IF factory # "ok"
        THEN [agent |-> 0, cache |-> cache, made |-> made,
              factory_called |-> TRUE]
    ELSE [agent |-> made + 1, cache |-> DictSet(cache, session_id, made + 1),
          made |-> made + 1, factory_called |-> TRUE]

\* _get_or_create_agent: the agent returned (0 for None; agents are numbered
\* in the order the factory made them), the cache and the number of agents
\* made after the call, and whether the factory was called. Nothing in it is
\* awaited, so no other handler runs during it.
GetOrCreateAgent(cache, made, session_id, env, factory) ==
    IF DictHas(cache, session_id)
        THEN [agent |-> DictGet(cache, session_id), cache |-> cache,
              made |-> made, factory_called |-> FALSE]
    ELSE IF CreateSession(session_id, HandlerStorageType, HandlerRedisUrl,
                          env).outcome = "raised"
        THEN [agent |-> 0, cache |-> cache, made |-> made,
              factory_called |-> FALSE]
    ELSE IF factory # "ok"
        THEN [agent |-> 0, cache |-> cache, made |-> made,
              factory_called |-> TRUE]
    ELSE [agent |-> made + 1, cache |-> DictSet(cache, session_id, made + 1),
          made |-> made + 1, factory_called |-> TRUE]

\* A connection: state is where handle_connection is ("new" before the call,
\* "open" inside the message loop, "returned"), up whether the client is
\* still there, pc the wait the loop is at ("loop" for the next message,
\* "deleting" inside SessionManager.delete_session, "loading" inside
\* session.get_items, "turn" for the next event of the agent's stream), last
\* the JSON kind and the type of the message last read, request the
\* delete_session or load_history request whose storage call is under way,
\* taken the events the turn under way has taken from the agent's stream,
\* first_sent the first message ever handed to _send_message, replies the
\* messages handed to it since the last message was read.
NoMessage == [type |-> "none"]
NewConnection ==
    [state |-> "new", up |-> TRUE, pc |-> "loop",
     last |-> [json |-> "", type |-> ""], request |-> NoMessage,
     taken |-> <<>>, first_sent |-> NoMessage, replies |-> <<>>]

ServerInit ==
    /\ NoTurn
    /\ NoFrontEnd
    /\ NoPair
    /\ sm_call = NoCall
    /\ sm_result = Returned(PyNone)
    /\ config_servers = <<>>
    /\ load_index = 0
    /\ loaded_servers = <<>>
    /\ loader_pc = "returned"
    /\ session_agents = {}
    /\ connection_sessions = {}
    /\ conns = [c \in Connections |-> NewConnection]
    /\ agents_made = 0
    /\ requests = 0
    /\ agent_history = NoHistory
    /\ ids_generated = 0

ServerUnchanged ==
    UNCHANGED <<manager, loader, front, pair, earlier, method, mcp_servers, pc, pulled,
                chunks, out, history, current_text_buffer, flags>>

\* _send_message on a connection, once per message: the message is handed
\* to websocket.send, which goes through while the client is there; a
\* failure is logged and swallowed, so the handler goes on either way.
\* The wait inside websocket.send is part of the step that makes the call:
\* after a send no handler reads or writes session_agents or
\* connection_sessions before its next wait.
Sent(connection, messages) ==
    [connection EXCEPT
        !.replies = @ \o messages,
        !.first_sent = IF @ = NoMessage /\ messages # <<>> THEN messages[1]
                       ELSE @]

\* Variant: the message loop starts without a greeting.
Greeting_None == <<>>

\* What handle_connection sends before its message loop.
Greeting == <<ConnectedMessage>>

\* handle_connection is called for connection c: it returns at once when the
\* socket is not open, else sends the greeting and enters the message loop.
HandleConnection(c) ==
    /\ conns[c].state = "new"
    /\ conns' = [conns EXCEPT ![c] =
                    IF conns[c].up
                        THEN [Sent(conns[c], Greeting) EXCEPT !.state = "open"]
                    ELSE [conns[c] EXCEPT !.state = "returned"]]
    /\ UNCHANGED <<session_agents, connection_sessions, agents_made, requests,
                   agent_history, ids_generated>>
    /\ ServerUnchanged

\* The client goes away (before the call, between or during requests).
ClientCloses(c) ==
    /\ conns[c].state \in {"new", "open"}
    /\ conns[c].up
    /\ conns' = [conns EXCEPT ![c].up = FALSE]
    /\ UNCHANGED <<session_agents, connection_sessions, agents_made, requests,
                   agent_history, ids_generated>>
    /\ ServerUnchanged

\* Variant: the finally clause leaves the connection's entry in place.
CleanupConnection_KeepsEntry(mapping, c) == mapping

\* _cleanup_connection: connection_sessions without the connection's entry.
CleanupConnection(mapping, c) == DictDel(mapping, c)

\* The message loop ends (async for is over or raises): _cleanup_connection
\* in the finally clause drops the connection's entry.
ConnectionEnds(c) ==
    /\ conns[c].state = "open"
    /\ conns[c].pc = "loop"
    /\ ~conns[c].up
    /\ conns' = [conns EXCEPT ![c].state = "returned"]
    /\ connection_sessions' = CleanupConnection(connection_sessions, c)
    /\ UNCHANGED <<session_agents, agents_made, requests, agent_history,
                   ids_generated>>
    /\ ServerUnchanged

\* Variant: each message is handled in a task of its own, so the loop takes
\* the next message while the request before it is still under way.
CanRead_DuringRequest(c) ==
    /\ conns[c].state = "open"
    /\ conns[c].up
    /\ requests < MaxRequests

\* The loop can take the next message from the socket.
CanRead(c) ==
    /\ conns[c].state = "open"
    /\ conns[c].pc = "loop"
    /\ conns[c].up
    /\ requests < MaxRequests

\* The connection after message was read and answered with replies.
Answered(c, message, replies) ==
    Sent([conns[c] EXCEPT !.replies = <<>>,
                          !.last = [json |-> message.json,
                                    type |-> message.type]],
         replies)

\* Variant: a message of an unknown type gets no answer.
UnroutableReplies_SilentOnUnknown(route) ==
    IF route = "unknown" THEN <<>> ELSE <<ErrorMessage>>

\* The except JSONDecodeError clause, the except Exception clause and the
\* else branch of the chain each call _send_error once.
UnroutableReplies(route) == <<ErrorMessage>>

\* A message that is not JSON, is no object or has an unknown type.
ReadUnroutable(c, message) ==
    /\ CanRead(c)
    /\ Route(message) \notin KnownTypes
    /\ conns' = [conns EXCEPT ![c] =
                    Answered(c, message, UnroutableReplies(Route(message)))]
    /\ requests' = requests + 1
    /\ UNCHANGED ids_generated
    /\ UNCHANGED <<session_agents, connection_sessions, agents_made,
                   agent_history>>
    /\ ServerUnchanged

\* _handle_create_session
ReadCreateSession(c, message) ==
    /\ CanRead(c)
    /\ Route(message) = "create_session"
    /\ \E env \in ServerCreateEnvs, factory \in FactoryOutcomes :
        /\ LET session_id == IF message.session_id = ""
                                 THEN GeneratedId(ids_generated)
                             ELSE message.session_id
               r == GetOrCreateAgent(session_agents, agents_made,
                                     session_id, env, factory)
           IN /\ session_agents' = r.cache
              /\ agents_made' = r.made
              /\ agent_history' = AfterCallBy(agent_history, c, session_id, r)
              /\ conns' = [conns EXCEPT ![c] =
                     Answered(c, message,
                         IF r.agent # 0
                             THEN <<SessionMessage("session_created",
                                                   session_id)>>
                         ELSE <<ErrorMessage>>)]
    /\ ids_generated' = ids_generated + (IF message.session_id = "" THEN 1
                                         ELSE 0)
    /\ requests' = requests + 1
    /\ UNCHANGED connection_sessions
    /\ ServerUnchanged

\* _handle_switch_session
ReadSwitchSession(c, message) ==
    /\ CanRead(c)
    /\ Route(message) = "switch_session"
    /\ \E env \in ServerCreateEnvs, factory \in FactoryOutcomes :
        /\ IF message.session_id = ""
               THEN /\ conns' = [conns EXCEPT ![c] =
                           Answered(c, message, <<ErrorMessage>>)]
                    /\ UNCHANGED <<session_agents, agents_made, agent_history,
                                   connection_sessions>>
           ELSE LET r == GetOrCreateAgent(session_agents, agents_made,
                                          message.session_id, env, factory)
                IN /\ session_agents' = r.cache
                   /\ agents_made' = r.made
                   /\ agent_history' =
                          AfterCallBy(agent_history, c, message.session_id, r)
                   /\ connection_sessions' =
                          IF r.agent # 0
                              THEN DictSet(connection_sessions, c,
                                           message.session_id)
                          ELSE connection_sessions
                   /\ conns' = [conns EXCEPT ![c] =
                          Answered(c, message,
                              IF r.agent # 0
                                  THEN <<SessionMessage("session_switched",
                                                        message.session_id)>>
                              ELSE <<ErrorMessage>>)]
    /\ requests' = requests + 1
    /\ UNCHANGED ids_generated
    /\ ServerUnchanged

\* _handle_delete_session up to the await of SessionManager.delete_session:
\* without a session id one _send_error, else the deletion is under way and
\* other connections' handlers can run.
ReadDeleteSession(c, message) ==
    /\ CanRead(c)
    /\ Route(message) = "delete_session"
    /\ conns' = [conns EXCEPT ![c] =
           IF message.session_id = ""
               THEN Answered(c, message, <<ErrorMessage>>)
           ELSE [Answered(c, message, <<>>) EXCEPT !.pc = "deleting",
                                                !.request = message]]
    /\ requests' = requests + 1
    /\ UNCHANGED ids_generated
    /\ UNCHANGED <<session_agents, connection_sessions, agents_made,
                   agent_history>>
    /\ ServerUnchanged

\* Variant: the cached agent survives the deletion.
CacheAfterDelete_Kept(cache, session_id) == cache

\* session_agents after the storage deletion went through.
CacheAfterDelete(cache, session_id) == DictDel(cache, session_id)

\* Variant: every connection that is on the deleted session loses its entry.
MappingAfterDelete_AllOnSession(mapping, c, session_id) ==
    {p \in mapping : p[2] # session_id}

\* connection_sessions after the storage deletion went through: the
\* requesting connection's entry goes when it names the deleted session.
MappingAfterDelete(mapping, c, session_id) == mapping \ {<<c, session_id>>}

\* SessionManager.delete_session is over: after a success the cached agent
\* goes, the connection's own entry goes when it names the session, and
\* session_deleted is sent; after a failure one _send_error.
DeleteSessionEnds(c, env) ==
    /\ conns[c].state = "open"
    /\ conns[c].pc = "deleting"
    /\ LET session_id == conns[c].request.session_id
           deletion == DeleteSession(session_id, HandlerStorageType,
                                     HandlerRedisUrl, env)
       IN IF deletion.outcome = "returned"
               THEN /\ session_agents' =
                           CacheAfterDelete(session_agents, session_id)
                    /\ connection_sessions' =
                           MappingAfterDelete(connection_sessions, c,
                                              session_id)
                    /\ agent_history' =
                           AfterDeletion(agent_history, session_agents,
                                         session_id)
                    /\ conns' = [conns EXCEPT ![c] =
                           Sent([conns[c] EXCEPT !.pc = "loop",
                                                 !.request = NoMessage],
                                <<SessionMessage("session_deleted",
                                                 session_id)>>)]
           ELSE /\ conns' = [conns EXCEPT ![c] =
                       Sent([conns[c] EXCEPT !.pc = "loop",
                                             !.request = NoMessage],
                            <<ErrorMessage>>)]
                /\ UNCHANGED <<session_agents, connection_sessions,
                               agent_history>>
    /\ UNCHANGED <<agents_made, requests, ids_generated>>
    /\ ServerUnchanged

\* _handle_user_message up to the agent's stream: without a session id,
\* without content or without an agent one _send_error; else the connection
\* is mapped to the session and the turn is under way.
ReadUserMessage(c, message) ==
    /\ CanRead(c)
    /\ Route(message) = "message"
    /\ \E env \in ServerCreateEnvs, factory \in FactoryOutcomes :
        /\ IF message.session_id = "" \/ message.content = ""
               THEN /\ conns' = [conns EXCEPT ![c] =
                           Answered(c, message, <<ErrorMessage>>)]
                    /\ UNCHANGED <<session_agents, agents_made, agent_history,
                                   connection_sessions>>
           ELSE LET r == GetOrCreateAgent(session_agents, agents_made,
                                          message.session_id, env, factory)
                IN /\ session_agents' = r.cache
                   /\ agents_made' = r.made
                   /\ agent_history' =
                          AfterCallBy(agent_history, c, message.session_id, r)
                   /\ connection_sessions' =
                          IF r.agent # 0
                              THEN DictSet(connection_sessions, c,
                                           message.session_id)
                          ELSE connection_sessions
                   /\ conns' = [conns EXCEPT ![c] =
                          IF r.agent # 0
                              THEN [Answered(c, message, <<>>)
                                       EXCEPT !.pc = "turn"]
                          ELSE Answered(c, message, <<ErrorMessage>>)]
    /\ requests' = requests + 1
    /\ UNCHANGED ids_generated
    /\ ServerUnchanged

\* What the agent's stream does in a turn: the events it yields and whether
\* it raises after them.
TurnStreams ==
    {[events |-> <<ThinkEvent(<<"a">>), TextDeltaOut(<<"a">>), CompleteEvent>>,
      raises |-> FALSE],
     [events |-> <<ThinkEvent(<<"a">>)>>, raises |-> TRUE]}

\* The streams that can still follow the events taken: those that begin
\* with them.
StreamsFrom(taken) ==
    {stream \in TurnStreams :
        /\ Len(taken) <= Len(stream.events)
        /\ SubSeq(stream.events, 1, Len(taken)) = taken}

\* The adapter's flags after the events taken.
AdapterAfter(taken) == [RelayAll(taken) EXCEPT !.send = <<>>]

\* _handle_user_message is back in the message loop.
TurnOver(connection) == [connection EXCEPT !.pc = "loop", !.taken = <<>>]

\* The wait for the next event of the stream ends with an event: the loop
\* body relays it and the handler waits for the event after it.  A stream
\* that returns straight after its last event, as run_with_stream_and_events
\* does after complete, ends the async for in the same step; one that waits
\* once more before it returns ends it in TurnEnds.
TurnEvent(c) ==
    /\ conns[c].state = "open"
    /\ conns[c].pc = "turn"
    /\ \E stream \in StreamsFrom(conns[c].taken), at_once \in BOOLEAN :
        /\ Len(conns[c].taken) < Len(stream.events)
        /\ LET event == stream.events[Len(conns[c].taken) + 1]
               taken == Append(conns[c].taken, event)
               relayed == Sent([conns[c] EXCEPT !.taken = taken],
                               RelayEvent(AdapterAfter(conns[c].taken),
                                          event).send)
           IN /\ at_once => (taken = stream.events /\ ~stream.raises)
              /\ conns' = [conns EXCEPT ![c] =
                     IF at_once THEN TurnOver(relayed) ELSE relayed]
    /\ UNCHANGED <<session_agents, connection_sessions, agents_made, requests,
                   agent_history, ids_generated>>
    /\ ServerUnchanged

\* The wait for the next event of the stream ends without one: the stream
\* is over, or it raises and the except clause calls _send_error once;
\* _handle_user_message returns to the message loop.
TurnEnds(c) ==
    /\ conns[c].state = "open"
    /\ conns[c].pc = "turn"
    /\ \E stream \in StreamsFrom(conns[c].taken) :
        /\ conns[c].taken = stream.events
        /\ conns' = [conns EXCEPT ![c] =
               TurnOver(Sent(conns[c],
                             IF stream.raises THEN <<ErrorMessage>>
                             ELSE <<>>))]
    /\ UNCHANGED <<session_agents, connection_sessions, agents_made, requests,
                   agent_history, ids_generated>>
    /\ ServerUnchanged

\* _handle_list_sessions
ReadListSessions(c, message) ==
    /\ CanRead(c)
    /\ Route(message) = "list_sessions"
    /\ \E env \in ServerListEnvs :
           LET listed == ListSessions(HandlerStorageType, HandlerRedisUrl, env)
           IN conns' = [conns EXCEPT ![c] =
                  Answered(c, message,
                      IF listed.outcome = "returned"
                          THEN <<SessionsListMessage(listed.value)>>
                      ELSE <<ErrorMessage>>)]
    /\ requests' = requests + 1
    /\ UNCHANGED ids_generated
    /\ UNCHANGED <<session_agents, connection_sessions, agents_made,
                   agent_history>>
    /\ ServerUnchanged

\* _handle_load_history up to the await of session.get_items: one
\* _send_error without a session id or when no session can be created, else
\* the storage call is under way and other connections' handlers can run.
ReadLoadHistory(c, message) ==
    /\ CanRead(c)
    /\ Route(message) = "load_history"
    /\ \E env \in ServerCreateEnvs :
           conns' = [conns EXCEPT ![c] =
               IF \/ message.session_id = ""
                  \/ CreateSession(message.session_id, HandlerStorageType,
                                   HandlerRedisUrl, env).outcome = "raised"
                   THEN Answered(c, message, <<ErrorMessage>>)
               ELSE [Answered(c, message, <<>>) EXCEPT !.pc = "loading",
                                                    !.request = message]]
    /\ requests' = requests + 1
    /\ UNCHANGED ids_generated
    /\ UNCHANGED <<session_agents, connection_sessions, agents_made,
                   agent_history>>
    /\ ServerUnchanged

\* session.get_items is over, as far as the maps and the number of replies
\* go: one history_loaded message for the items it returned, one
\* _send_error when it raised.
LoadHistoryEnds(c, get_items) ==
    /\ conns[c].state = "open"
    /\ conns[c].pc = "loading"
    /\ conns' = [conns EXCEPT ![c] =
           Sent([conns[c] EXCEPT !.pc = "loop", !.request = NoMessage],
                IF get_items = "ok"
                    THEN <<SessionMessage("history_loaded",
                                          conns[c].request.session_id)>>
                ELSE <<ErrorMessage>>)]
    /\ UNCHANGED <<session_agents, connection_sessions, agents_made, requests,
                   agent_history, ids_generated>>
    /\ ServerUnchanged

\* _handle_message for one message read on connection c.
HandleMessage(c, message) ==
    \/ ReadUnroutable(c, message)
    \/ ReadCreateSession(c, message)
    \/ ReadSwitchSession(c, message)
    \/ ReadDeleteSession(c, message)
    \/ ReadUserMessage(c, message)
    \/ ReadListSessions(c, message)
    \/ ReadLoadHistory(c, message)

ServerNext ==
    \E c \in Connections :
        \/ HandleConnection(c)
        \/ ClientCloses(c)
        \/ ConnectionEnds(c)
        \/ \E message \in ClientMessages : HandleMessage(c, message)
        \/ \E env \in ServerDeleteEnvs : DeleteSessionEnds(c, env)
        \/ \E get_items \in {"ok", "raises"} : LoadHistoryEnds(c, get_items)
        \/ TurnEvent(c)
        \/ TurnEnds(c)

SpecServer == ServerInit /\ [][ServerNext]_vars

\* The agents (not None) that _get_or_create_agent has returned for session
\* id s since s was last deleted.
AgentsSince(s) == agent_history[s].returned \ {0}

\* C21 as stated: between deletions every call of _get_or_create_agent(s)
\* returns the same value, the factory is invoked at most once for s, and no
\* other session id receives an agent returned for s.
C21_SameAgentFactoryOnce ==
    \A s \in SessionKeys :
        /\ Cardinality(agent_history[s].returned) <= 1
        /\ agent_history[s].factory_calls <= 1
        /\ \A t \in SessionKeys \ {s} :
               agent_history[s].ever \cap agent_history[t].ever = {}

\* C21: between deletions of s at most one agent is returned for s, it is the
\* cached one, and from the call that returned it on the factory is not
\* invoked for s and no other value is returned for s; no other session id
\* ever receives an agent returned for s. (A call that finds s uncached and
\* fails returns None, and the next call invokes the factory again.)
C21_SameAgentOnceCreated ==
    /\ [](\A s \in SessionKeys :
            /\ Cardinality(AgentsSince(s)) <= 1
            /\ AgentsSince(s) # {} =>
                   /\ DictHas(session_agents, s)
                   /\ AgentsSince(s) = {DictGet(session_agents, s)}
            /\ \A t \in SessionKeys \ {s} :
                   agent_history[s].ever \cap agent_history[t].ever = {})
    /\ [][\A s \in SessionKeys :
            (/\ AgentsSince(s) # {}
             /\ agent_history'[s].deletions = agent_history[s].deletions) =>
                /\ agent_history'[s].factory_calls =
                       agent_history[s].factory_calls
                /\ agent_history'[s].returned = agent_history[s].returned
                /\ DictHas(session_agents', s)
                /\ DictGet(session_agents', s) = DictGet(session_agents, s)]_vars

\* Two connections were handed the agent of one session, made by one factory
\* call, and another session has an agent of its own.
C21_Witness ==
    \E s \in SessionKeys, t \in SessionKeys :
        /\ s # t
        /\ {<<1, s>>, <<2, s>>} \subseteq connection_sessions
        /\ agent_history[s].deletions = 0
        /\ agent_history[s].factory_calls = 1
        /\ DictHas(session_agents, s)
        /\ DictHas(session_agents, t)
        /\ DictGet(session_agents, s) # DictGet(session_agents, t)

\* C22: when the storage deletion of a delete_session request for s goes
\* through, s is not in session_agents afterwards and the one reply is
\* session_deleted for s; an agent that was cached for s when a deletion went
\* through is never cached or returned for s again.
C22_DeletedAgentIsGone ==
    /\ [][\A c \in Connections, env \in ServerDeleteEnvs :
            (/\ DeleteSessionEnds(c, env)
             /\ DeleteSession(conns[c].request.session_id, HandlerStorageType,
                              HandlerRedisUrl, env).outcome = "returned") =>
                /\ ~DictHas(session_agents', conns[c].request.session_id)
                /\ conns'[c].replies =
                       <<SessionMessage("session_deleted",
                                        conns[c].request.session_id)>>]_vars
    /\ [](\A s \in SessionKeys :
            /\ AgentsSince(s) \cap agent_history[s].deleted = {}
            /\ DictHas(session_agents, s) =>
                   DictGet(session_agents, s) \notin agent_history[s].deleted)

\* A session whose agent was deleted has a new agent.
C22_Witness ==
    \E s \in SessionKeys :
        /\ agent_history[s].deleted # {}
        /\ DictHas(session_agents, s)
        /\ AgentsSince(s) = {DictGet(session_agents, s)}
        /\ \E c \in Connections :
               conns[c].replies = <<SessionMessage("session_created", s)>>

\* C23: on a connection that was open when handle_connection was called, the
\* first message handed to _send_message is the connected message, and no
\* client message is read before it.
C23_ConnectedIsFirstMessage ==
    \A c \in Connections :
        /\ conns[c].first_sent \in {NoMessage, ConnectedMessage}
        /\ conns[c].state = "open" => conns[c].first_sent = ConnectedMessage
        /\ conns[c].last.json # "" => conns[c].first_sent = ConnectedMessage

C23_Witness ==
    \E c \in Connections :
        /\ conns[c].first_sent = ConnectedMessage
        /\ conns[c].last.type = "create_session"
        /\ Len(conns[c].replies) = 1
        /\ conns[c].replies[1].type = "session_created"

\* C24: a client message that is not a JSON object or whose type is not a
\* known one is answered by exactly one error message, leaves session_agents
\* and connection_sessions as they were, and leaves the connection open with
\* its loop ready for the next message.
C24_BadMessageOneErrorNoChange ==
    [][\A c \in Connections, message \in ClientMessages :
          (/\ message.json # "object" \/ message.type \notin KnownTypes
           /\ HandleMessage(c, message)) =>
              /\ conns'[c].replies = <<ErrorMessage>>
              /\ session_agents' = session_agents
              /\ connection_sessions' = connection_sessions
              /\ agent_history' = agent_history
              /\ conns'[c].state = "open"
              /\ conns'[c].pc = "loop"
              /\ conns'[c].up
              /\ \A d \in Connections \ {c} : conns'[d] = conns[d]]_vars

\* An unknown type was answered on a connection that is mapped to a session,
\* and the loop is ready for the next message.
C24_Witness ==
    \E c \in Connections :
        /\ conns[c].last = [json |-> "object", type |-> "rename_session"]
        /\ conns[c].replies = <<ErrorMessage>>
        /\ DictHas(connection_sessions, c)
        /\ session_agents # {}
        /\ conns[c].state = "open"
        /\ conns[c].pc = "loop"
        /\ conns[c].up

-----------------------------------------------------------------------------
\* A tool call pulled while an earlier call has no output yet

\* Pull indices of the text deltas pulled after a tool call and followed, with
\* no tool output in between, by the next tool call.
DiscardedFrags ==
    {i \in 1..Len(pulled) :
        /\ IsNonEmptyTextDelta(pulled[i])
        /\ LatestTool(SubSeq(pulled, 1, i - 1)) = "start"
        /\ \E k \in (i + 1)..Len(pulled) :
              /\ IsToolCallRaw(pulled[k])
              /\ \A j \in (i + 1)..(k - 1) : ~IsToolRaw(pulled[j])}
PullsToolCall == Events /\ JustPulled /\ IsToolCallRaw(pulled'[Len(pulled')])

\* C31: a tool call pulled while the latest tool event is a tool call with no
\* output yet yields exactly one tool_call event, for the new call, and empties
\* current_text_buffer; the text deltas buffered between the two calls are
\* carried by no event of the turn, then or later.
C31_SecondCallDiscardsBufferedText ==
    /\ [](Events =>
            \A i \in DiscardedFrags : \A n \in 1..Len(out) :
                \A k \in 1..Len(outFrags[n]) : outFrags[n][k] # i)
    /\ [][(PullsToolCall /\ LatestTool(pulled) = "start")
          => /\ out' = Append(out, ToolCallEvent(mcp_servers, pulled'[Len(pulled')].item))
             /\ current_text_buffer' = <<>>
             /\ bufFrags' = <<>>]_vars

C31_Witness ==
    /\ Events
    /\ pc = "done"
    /\ Len(pulled) = 4
    /\ IsToolCallRaw(pulled[1])
    /\ pulled[2] = TextDeltaEvent(<<"a">>)
    /\ IsToolCallRaw(pulled[3])
    /\ IsToolOutputRaw(pulled[4])
    /\ DiscardedFrags = {2}
    /\ Len(out) = 4
    /\ out[1].type = "tool_call"
    /\ out[2].type = "tool_call"
    /\ out[3].type = "tool_output"
    /\ IsComplete(out[4])

-----------------------------------------------------------------------------
\* Where the name of a tool call comes from

NameMaxCalls == 1

\* A distinct name for each place the handler looks at.
RAW_NAME == <<"r", "n">>
RAW_TOOL_NAME == <<"r", "t">>
RAW_FUNCTION_NAME == <<"r", "f">>
ITEM_NAME == <<"i", "n">>
ITEM_TOOL_NAME == <<"i", "t">>
ITEM_FUNCTION_NAME == <<"i", "f">>

OrNone(name) == {<<>>, name}

\* The raw_item of a tool_call_item: absent, or a record with any of its
\* three names set.
RawItemsNamed ==
    {NoRawItem}
        \cup {[NoRawItem EXCEPT !.present = TRUE, !.name = n, !.tool_name = tn,
                                !.function_name = fn] :
                 n \in OrNone(RAW_NAME), tn \in OrNone(RAW_TOOL_NAME),
                 fn \in OrNone(RAW_FUNCTION_NAME)}

\* item.function: absent, or an object whose name is None or set.
FunctionsNamed ==
    {NoFunction}
        \cup {[NoFunction EXCEPT !.present = TRUE, !.name = fn] :
                 fn \in OrNone(ITEM_FUNCTION_NAME)}

NamedCalls ==
    {RunItemEvent([BlankItem("tool_call_item") EXCEPT
                      !.raw_item = raw, !.name = n, !.tool_name = tn,
                      !.function = f]) :
        raw \in RawItemsNamed, n \in OrNone(ITEM_NAME),
        tn \in OrNone(ITEM_TOOL_NAME), f \in FunctionsNamed}

\* Tool outputs whose records name the tool in different places.
CALL_ID == <<"c", "1">>
NamedOutputs ==
    {RunItemEvent([BlankItem("tool_call_output_item") EXCEPT
                      !.raw_item = [NoRawItem EXCEPT
                                       !.present = TRUE, !.name = n,
                                       !.tool_call_id = id,
                                       !.output = PyStr(<<"o", "k">>)],
                      !.name = own]) :
        n \in {<<>>, READ, (FILES \o <<COLON>> \o READ)},
        id \in OrNone(CALL_ID), own \in OrNone(ITEM_NAME)}

NameServerLists == {<<>>, <<FilesServer>>}

NamesInit ==
    /\ method = "run_with_stream_and_events"
    /\ mcp_servers \in NameServerLists
    /\ pc = "streaming"
    /\ pulled = <<>>
    /\ chunks = <<>>
    /\ out = <<>>
    /\ outCause = <<>>
    /\ outFrags = <<>>
    /\ bufFrags = <<>>
    /\ current_text_buffer = <<>>
    /\ last_event_was_tool_call = FALSE
    /\ has_sent_think = FALSE
    /\ is_after_tool_output = FALSE
    /\ is_thinking_phase = FALSE
    /\ has_called_tool = FALSE
    /\ think_was_sent = FALSE
    /\ NoFrontEnd
    /\ NoPair
    /\ NoServices

NamesNext ==
    \/ \E e \in NamedCalls : Len(pulled) < NameMaxCalls /\ ToolCallItem(e)
    \/ \E e \in NamedOutputs :
          Len(pulled) <= NameMaxCalls /\ ToolCallOutputItem(e)
    \/ EndOfStream

SpecNames == NamesInit /\ [][NamesNext]_vars

\* The places a name can come from, in the order the claim gives.
NameCandidates(item) ==
    <<item.raw_item.name, item.raw_item.tool_name, item.raw_item.function_name,
      item.name, item.tool_name, item.function.name>>

\* The first non-empty candidate, 'unknown' when there is none.
FirstNonEmpty(candidates) ==
    IF \A k \in 1..Len(candidates) : candidates[k] = <<>> THEN UNKNOWN
    ELSE candidates[CHOOSE k \in 1..Len(candidates) :
                        /\ candidates[k] # <<>>
                        /\ \A j \in 1..(k - 1) : candidates[j] = <<>>]

\* C32: the name resolved for a tool call is the first non-empty one of
\* raw_item.name, raw_item.tool_name, raw_item.function_name, item.name,
\* item.tool_name, item.function.name, and 'unknown' when all are missing or
\* empty; the tool_call event presents that name (bare when the scan of the
\* connected servers gives no provider, so a call without any name is
\* presented as 'unknown').
C32_FirstNonEmptyCandidateNamesCall ==
    \A i \in ToolCallsOut :
        LET name == FirstNonEmpty(NameCandidates(ItemOf(i))) IN
        /\ ResolveCallName(ItemOf(i)) = name
        /\ out[i].tool_name = FormatToolName(ResolveProvider(mcp_servers, name))
        /\ ScanServers(mcp_servers, name, 1) = <<>> => out[i].tool_name = name

C32_Witness ==
    /\ Len(pulled) = 1
    /\ pulled[1].item.raw_item.present
    /\ NameCandidates(pulled[1].item) =
           <<(<<>>), <<>>, RAW_FUNCTION_NAME, ITEM_NAME, ITEM_TOOL_NAME, <<>>>>
    /\ Len(out) = 1
    /\ out[1].type = "tool_call"
    /\ out[1].tool_name = RAW_FUNCTION_NAME

-----------------------------------------------------------------------------
\* The socket adapter fed by the classifier

\* Every tool output of the stream has a tool call somewhere before it.
EachResultAfterStart(events) ==
    \A i \in 1..Len(events) :
        IsToolOutputRaw(events[i]) => \E j \in 1..(i - 1) : IsToolCallRaw(events[j])

\* C33: when the turn is produced by run_with_stream_and_events from a raw
\* stream in which every tool output has a tool call before it, the socket
\* adapter hands exactly one message to _send_message per event it has taken,
\* in the order of the events: a think event as text_delta with the same
\* content, every other event as it is.  No text_delta is withheld.
C33_ClassifierEventsAllRelayed ==
    (front_end = "web" /\ Events /\ EachResultAfterStart(pulled)) =>
        /\ Len(RelayedWire) = consumed
        /\ \A k \in 1..consumed :
               /\ RelayedWire[k].event = k
               /\ RelayedWire[k].data = Remapped(out[k])
               /\ ~Withheld(k)

C33_Witness ==
    /\ front_end = "web"
    /\ Events
    /\ pc = "done"
    /\ Len(pulled) = 3
    /\ IsToolCallRaw(pulled[1])
    /\ IsToolOutputRaw(pulled[2])
    /\ IsTextDelta(pulled[3])
    /\ consumed = 4
    /\ Len(RelayedWire) = 4
    /\ RelayedWire[3].data = TextDeltaOut(<<"a">>)
    /\ IsComplete(RelayedWire[4].data)

-----------------------------------------------------------------------------
\* Thinking ends with the first tool call

\* C34: in the events a turn has yielded, no think event comes after a
\* tool_call event, whatever raw events were pulled in between or after.
C34_NoThinkAfterToolCall ==
    Events =>
        \A i, j \in 1..Len(out) :
            (i < j /\ out[i].type = "tool_call") => out[j].type # "think"

C34_Witness ==
    /\ Events
    /\ pc = "done"
    /\ Len(pulled) = 4
    /\ pulled[1] = TextDeltaEvent(<<"a">>)
    /\ IsToolCallRaw(pulled[2])
    /\ pulled[3] = TextDeltaEvent(<<"b">>)
    /\ IsUnrecognised(pulled[4])
    /\ Len(out) = 3
    /\ out[1] = ThinkEvent(<<"a">>)
    /\ out[2].type = "tool_call"
    /\ IsComplete(out[3])

-----------------------------------------------------------------------------
\* Requests of several connections for one session id

\* Connection c's handler calls _get_or_create_agent(s) in this step, for
\* the first time since s was last deleted, after another connection did.
JoinsRequesters(c, s) ==
    /\ c \notin agent_history[s].callers
    /\ agent_history[s].callers # {}
    /\ c \in agent_history'[s].callers

\* C35 as stated: when more than one connection has requested session id s
\* since it was last deleted (the first of them found it uncached), the agent
\* factory has run exactly once for s and every one of the calls returned the
\* same agent.
C35_RacingRequestsOneFactoryCall ==
    \A s \in SessionKeys :
        Cardinality(agent_history[s].callers) >= 2 =>
            /\ agent_history[s].factory_calls = 1
            /\ Cardinality(agent_history[s].returned) = 1
            /\ 0 \notin agent_history[s].returned

\* C35: the calls of _get_or_create_agent(s) made for several connections
\* run one after another. At most one agent is ever returned for s between
\* deletions; a connection that asks after one was returned gets that
\* instance, and neither the factory runs nor the cache changes; a connection
\* that asks while every earlier call has failed either fails too (None,
\* nothing cached and no agent made) or makes the one agent, with one factory
\* call, and caches it.
C35_RacingRequestsShareOneAgent ==
    /\ [](\A s \in SessionKeys : Cardinality(AgentsSince(s)) <= 1)
    /\ [][\A c \in Connections, s \in SessionKeys :
            JoinsRequesters(c, s) =>
                IF AgentsSince(s) # {}
                    THEN /\ agent_history'[s].returned = agent_history[s].returned
                         /\ agent_history'[s].factory_calls =
                                agent_history[s].factory_calls
                         /\ agents_made' = agents_made
                         /\ session_agents' = session_agents
                ELSE IF 0 \in agent_history'[s].returned
                           /\ agent_history'[s].returned = {0}
                    THEN /\ agents_made' = agents_made
                         /\ session_agents' = session_agents
                ELSE /\ agent_history'[s].returned = {0, agents_made + 1}
                     /\ agent_history'[s].factory_calls =
                            agent_history[s].factory_calls + 1
                     /\ agents_made' = agents_made + 1
                     /\ session_agents' =
                            DictSet(session_agents, s, agents_made + 1)]_vars

\* One connection's request for s failed in the factory, the other's made the
\* agent, and both connections are now on that agent.
C35_Witness ==
    \E s \in SessionKeys :
        /\ agent_history[s].callers = {1, 2}
        /\ agent_history[s].deletions = 0
        /\ agent_history[s].factory_calls = 2
        /\ agent_history[s].returned = {0, 1}
        /\ agents_made = 1
        /\ {<<1, s>>, <<2, s>>} \subseteq connection_sessions
        /\ DictGet(session_agents, s) = 1

-----------------------------------------------------------------------------
\* One message at a time on a connection

\* A message is read on connection c in this step.
ReadsOn(c) == \E message \in ClientMessages : HandleMessage(c, message)

\* The replies of a whole turn on one of the streams.
TurnReplies(stream) ==
    RelayAll(stream.events).send
        \o (IF stream.raises THEN <<ErrorMessage>> ELSE <<>>)

\* C36: while a request of a connection is under way (a turn, or a deletion
\* or load_history awaiting the storage), no message is taken from that
\* connection's socket, a switch or delete included; the connection's steps
\* are those of that request, which only add to its replies: a turn goes on
\* to its next event or returns to the loop with all the replies of its
\* stream handed to _send_message, a storage request returns to the loop
\* with its one reply; only then is the next message read.  A request is
\* under way only between the reading of its message and that end.
C36_OneMessageAtATime ==
    /\ [](\A c \in Connections :
            /\ conns[c].pc \in {"loop", "deleting", "loading", "turn"}
            /\ conns[c].pc \in {"deleting", "loading"} <=>
                   conns[c].request # NoMessage
            /\ conns[c].pc = "deleting" => conns[c].last.type = "delete_session"
            /\ conns[c].pc = "loading" => conns[c].last.type = "load_history"
            /\ conns[c].pc = "turn" => conns[c].last.type = "message"
            /\ conns[c].pc # "turn" => conns[c].taken = <<>>)
    /\ [][\A c \in Connections :
            conns[c].pc # "loop" =>
                /\ ~ReadsOn(c)
                /\ conns'[c] # conns[c] =>
                       \/ conns'[c] = [conns[c] EXCEPT !.up = FALSE]
                       \/ /\ conns'[c].last = conns[c].last
                          /\ requests' = requests
                          /\ Len(conns'[c].replies) >= Len(conns[c].replies)
                          /\ SubSeq(conns'[c].replies, 1,
                                    Len(conns[c].replies)) = conns[c].replies
                          /\ \/ /\ conns[c].pc = "turn"
                                /\ conns'[c].pc = "turn"
                                /\ Len(conns'[c].taken) =
                                       Len(conns[c].taken) + 1
                             \/ /\ conns'[c].pc = "loop"
                                /\ IF conns[c].pc = "turn"
                                       THEN \E stream \in TurnStreams :
                                                conns'[c].replies =
                                                    TurnReplies(stream)
                                   ELSE Len(conns'[c].replies) =
                                            Len(conns[c].replies) + 1]_vars

\* One connection's turn has taken two events of its stream and waits for
\* the third, with the one message sent so far; meanwhile the other
\* connection's deletion of the session that turn runs on awaits the storage.
C36_Witness ==
    \E c \in Connections, d \in Connections :
        /\ c # d
        /\ conns[c].pc = "turn"
        /\ Len(conns[c].taken) = 2
        /\ conns[c].replies = <<TextDeltaOut(<<"a">>)>>
        /\ conns[d].pc = "deleting"
        /\ conns[d].last.type = "delete_session"
        /\ <<c, conns[d].request.session_id>> \in connection_sessions
        /\ requests = 2

-----------------------------------------------------------------------------
\* What a delete_session request does to the two maps

\* The entry of connection d in connection_sessions, as a set (empty when d
\* has none).
EntryOf(mapping, d) == {p \in mapping : p[1] = d}

\* The delete_session requests a client can send.
DeleteRequests == {m \in ClientMessages : Route(m) = "delete_session"}

\* C37: a delete_session request of connection c for session s changes no
\* map when its message is read; when the storage deletion has gone through
\* it removes from connection_sessions the entry of c, and only when that
\* entry names s, and leaves every other connection's entry as it is (one
\* that names s included); when the storage deletion fails it changes neither
\* connection_sessions nor session_agents.
C37_DeleteTouchesOwnEntryOnly ==
    /\ [][\A c \in Connections, message \in DeleteRequests :
            (requests' # requests /\ ReadDeleteSession(c, message)) =>
                /\ connection_sessions' = connection_sessions
                /\ session_agents' = session_agents]_vars
    /\ [][\A c \in Connections, env \in ServerDeleteEnvs :
            DeleteSessionEnds(c, env) =>
                LET s == conns[c].request.session_id
                    gone == DeleteSession(s, HandlerStorageType,
                                          HandlerRedisUrl, env).outcome
                                = "returned"
                IN /\ \A d \in Connections \ {c} :
                          EntryOf(connection_sessions', d) =
                              EntryOf(connection_sessions, d)
                   /\ EntryOf(connection_sessions', c) =
                          (IF gone THEN EntryOf(connection_sessions, c) \ {<<c, s>>}
                           ELSE EntryOf(connection_sessions, c))
                   /\ ~gone => /\ connection_sessions' = connection_sessions
                               /\ session_agents' = session_agents]_vars

\* Both connections were on the session; one deleted it and lost its entry,
\* the other's entry still names the deleted session.
C37_Witness ==
    \E c \in Connections, d \in Connections, s \in SessionKeys :
        /\ c # d
        /\ conns[c].pc = "loop"
        /\ conns[c].last.type = "delete_session"
        /\ conns[c].replies = <<SessionMessage("session_deleted", s)>>
        /\ EntryOf(connection_sessions, c) = {}
        /\ EntryOf(connection_sessions, d) = {<<d, s>>}
        /\ ~DictHas(session_agents, s)

-----------------------------------------------------------------------------
\* What is left when handle_connection has returned

\* handle_connection returns for connection c in this step.
Returns(c) == conns[c].state # "returned" /\ conns'[c].state = "returned"

\* C38: a connection whose handle_connection has returned (the socket was not
\* open at the start, or the message loop ended) has no entry in
\* connection_sessions, then and ever after; the step in which it returns
\* changes nothing in session_agents, so the agents made for its sessions
\* stay cached.
C38_ReturnedConnectionHasNoEntry ==
    /\ [](\A c \in Connections :
            conns[c].state = "returned" => EntryOf(connection_sessions, c) = {})
    /\ [][\A c \in Connections :
            Returns(c) =>
                /\ session_agents' = session_agents
                /\ \A d \in Connections \ {c} :
                       EntryOf(connection_sessions', d) =
                           EntryOf(connection_sessions, d)]_vars

\* A connection that switched to a session as its last request has gone; the
\* session's agent is still cached.
C38_Witness ==
    \E c \in Connections, s \in SessionKeys :
        /\ conns[c].state = "returned"
        /\ conns[c].last.type = "switch_session"
        /\ conns[c].replies = <<SessionMessage("session_switched", s)>>
        /\ EntryOf(connection_sessions, c) = {}
        /\ DictHas(session_agents, s)
        /\ agent_history[s].callers = {c}

-----------------------------------------------------------------------------
\* The name on a tool_output event

ToolOutputsOut == {i \in 1..Len(out) : out[i].type = "tool_output"}

\* C39: every tool_output event yielded in a turn carries the one fixed
\* tool_name, whatever tool name and provider the handler worked out from the
\* output item and whatever name the tool_call events of the turn carry.
C39_ToolOutputNameIsFixed ==
    \A i \in ToolOutputsOut :
        /\ out[i].tool_name = TOOL_OUTPUT_NAME
        /\ out[i] = [type |-> "tool_output", tool_name |-> TOOL_OUTPUT_NAME,
                     output |-> ResolveOutput(ItemOf(i))]

\* A call presented under one name is followed by an output whose record
\* names another tool, with a provider.
C39_Witness ==
    /\ Len(pulled) = 2
    /\ Len(out) = 2
    /\ out[1].type = "tool_call"
    /\ out[1].tool_name = RAW_NAME
    /\ out[2].type = "tool_output"
    /\ ResolveOutputName(pulled[2].item) = FILES \o <<COLON>> \o READ
    /\ ResolveProvider(mcp_servers, ResolveOutputName(pulled[2].item)).server_name
           = FILES
    /\ out[2].tool_name = TOOL_OUTPUT_NAME

====
